---- MODULE Spec2Model ----
(***************************************************************************)
(* A model of the lurhook simulation core: the tension meter of the        *)
(* fishing mini-game (crates/fishing) and the game-mode state machine      *)
(* driven by LurhookGame::tick (crates/game-core).                         *)
(*                                                                         *)
(* Fractions are kept as scaled integers: reel_factor in hundredths,       *)
(* probabilities and rarities in hundredths.                               *)
(***************************************************************************)
EXTENDS Integers, Sequences, FiniteSets, TLC

\* Option<T>: None is the empty sequence, Some(x) the sequence <<x>>
NoKey == "NoKey"

(***************************************************************************)
(* Bounds of the model                                                     *)
(***************************************************************************)
\* number of update calls applied to one meter in the meter specifications
MaxUpdates == 6
\* number of turns of a session (ticks that carry input)
MaxTurn == 9
\* number of opening turns in which the player presses any input of Inputs and
\* the draws of advance_time are any of TimeDraws; in the later turns the
\* player only casts, reels or ends the run, and the draws are calm
MaxExplore == 2
\* number of turns of a long session in which the player only presses a key
\* that does nothing in Exploring
MaxLongTurn == 41
\* the largest count passed to spawn_fish_population on its own
MaxCount == 2
\* number of update_fish calls on a spawned population
MaxFishUpdates == 2
\* number of turns of a session that fishes first and then eats, cooks and
\* uses items
MaxStatTurn == 13
\* number of ticks two sessions are driven side by side
MaxTwinTurn == 3
\* number of ticks of a session that fishes and then aims another cast
MaxAimTurn == 12
\* number of ticks of a session that fishes and then walks to a corner
MaxWalkTurn == 15
\* number of ticks two sessions that aim apart are driven side by side
MaxTargetTurn == 11
\* number of ticks of a session that fishes among jellyfish
MaxHookTurn == 9
\* number of turns of a session before and after it is saved and restored
MaxLoadTurn == 12
\* the largest noise value of a cell, in thousandths
NoiseRange == 1000
\* number of turns of a session that fishes for area upgrades
MaxAreaTurn == 19
\* number of turns of a session spent moving among jellyfish
MaxHazardTurn == 6

\* the inputs of a tick: the key pressed (or NoKey), the left-click flag and
\* the mouse cell
Ctx(key, click, mouse) == [key |-> key, left_click |-> click, mouse_pos |-> mouse]
Inputs ==
    {Ctx(k, FALSE, <<0, 0>>) : k \in {"C", "R", "Return", "L", "I"}}
        \cup {Ctx(NoKey, TRUE, <<0, 0>>), Ctx(NoKey, TRUE, <<60, 0>>),
              Ctx("C", TRUE, <<0, 0>>)}
FishingInputs == {Ctx(k, FALSE, <<0, 0>>) : k \in {"C", "R", "Return"}}
\* the draws of advance_time: two of rng.range(0, 100), one of rng.range(0, 2)
TimeDraws == {<<50, 50, 1>>, <<0, 0, 0>>, <<9, 50, 1>>}
CalmDraws == {<<50, 50, 1>>}
\* the inputs of a long session: the reel key, which Exploring ignores
LongInputs == {Ctx("R", FALSE, <<0, 0>>)}
\* the inputs of a player who looks after itself: step right, open or close
\* the inventory, eat, cook, snack, activate the selected item, cursor down
CareInputs ==
    {Ctx("L", FALSE, <<0, 0>>), Ctx("I", FALSE, <<0, 0>>),
     Ctx("X", FALSE, <<0, 0>>), Ctx("F", FALSE, <<0, 0>>),
     Ctx("G", FALSE, <<0, 0>>), Ctx("Return", FALSE, <<0, 0>>),
     Ctx("J", FALSE, <<0, 0>>)}
\* the inputs of a session among jellyfish: stay, step up-left, step
\* down-right
HazardInputs ==
    {Ctx("R", FALSE, <<0, 0>>), Ctx("Y", FALSE, <<0, 0>>),
     Ctx("N", FALSE, <<0, 0>>)}
\* the inputs that adjust the target of a cast: step down, step right, step
\* up-left, a left click inside the view (alone or with a step), a left
\* click on the far corner of the view
AimAdjust ==
    {Ctx(k, FALSE, <<0, 0>>) : k \in {"J", "L", "Y"}}
        \cup {Ctx(NoKey, TRUE, <<2, 2>>), Ctx("J", TRUE, <<2, 2>>),
              Ctx(NoKey, TRUE, <<59, 16>>)}
\* the inputs of a session that aims: those, the cast key and the inventory
\* key
AimInputs ==
    AimAdjust \cup {Ctx(k, FALSE, <<0, 0>>) : k \in {"C", "I"}}
\* the inputs of a player who walks: a left click on the first and on the
\* last cell of the view, a step up-left, a step down-right
WalkInputs ==
    {Ctx(NoKey, TRUE, <<0, 0>>),
     Ctx(NoKey, TRUE, <<59, 16>>),
     Ctx("Y", FALSE, <<0, 0>>), Ctx("N", FALSE, <<0, 0>>)}
\* the inputs two sessions move their targets apart with: a step right, a
\* left click inside the view
TargetInputs == {Ctx("L", FALSE, <<0, 0>>), Ctx(NoKey, TRUE, <<2, 2>>)}
\* the inputs of a player who casts and fights: the cast key, the reel key
LineInputs == {Ctx(k, FALSE, <<0, 0>>) : k \in {"C", "R"}}
\* the draws of rng.range(0.0, 1.0) in update_fishing, in hundredths
BiteRolls == {0, 70, 99}
\* the sessions created: seed, difficulty, area, size of the population the
\* spawn returned, captures already in the codex file
Sessions ==
    { <<0, "Normal", "Coast", 5, 0>>, <<1, "Normal", "Coast", 2, 2>>,
      <<0, "Hard", "Offshore", 1, 5>>, <<0, "Easy", "Coast", 0, 0>> }
\* the sessions of the area specification: capture ledgers below, at and
\* beyond the thresholds of each area
AreaSessions ==
    { <<0, "Normal", "Coast", 2, 0>>, <<0, "Normal", "Coast", 2, 2>>,
      <<1, "Normal", "Coast", 5, 7>>, <<0, "Normal", "Offshore", 2, 3>>,
      <<0, "Normal", "Offshore", 2, 5>>, <<2, "Normal", "DeepSea", 2, 9>> }
\* the arguments (seed, difficulty, area) two sessions are created with
TwinSessions ==
    { <<0, "Normal", "Coast">>, <<1, "Hard", "Coast">>,
      <<0, "Easy", "Offshore">> }
\* the outcomes of the generator spawn_fish_population creates for itself,
\* as the number of cells the stand-in spawn starts its placement later
SpawnDraws == {0, 1, 2}
\* the sizes of the populations spawn_fish_population returns on an upgrade
PopSizes == {0, 1, 5}
\* the saved games loaded: position, hp, hunger, canned food, time of day
Saves ==
    { [x |-> 40, y |-> 25, hp |-> 2, hunger |-> 1, food |-> 1,
       time_of_day |-> "Night"] }
\* the meters of the meter specifications (reel_factor in hundredths)
Strengths == {0, 3, 8, 10, 25, 60}
ReelFactors == {0, 50, 100, 125}
Tensions == {0, 3, 5, 6, 50, 99, 100, 130}
MaxTensions == {100, 110}
Durations == {-1, 0, 1, 2, 3, 5}

(***************************************************************************)
(* crates/fishing: TensionMeter                                            *)
(***************************************************************************)
FightStyles == {"Aggressive", "Endurance", "Evasive"}

\* Rust's f32::round (half away from zero) of x/100, for x >= 0 or x < 0
RoundHundredths(x) ==
    IF x >= 0 THEN (x + 50) \div 100 ELSE -((-x + 50) \div 100)

\* Rust's i32 division, truncating toward zero
TruncDiv(a, b) ==
    IF a >= 0 THEN a \div b ELSE -((-a) \div b)

Max(a, b) == IF a >= b THEN a ELSE b
Min(a, b) == IF a <= b THEN a ELSE b

\* TensionMeter::new; reel_factor is in hundredths
TensionMeter_new(strength, style, reel_factor) ==
    [tension |-> 0, max_tension |-> 100, duration |-> 5,
     strength |-> strength, style |-> style, reel_factor |-> reel_factor]

\* an update whose Endurance branch reads the duration after the decrement
MeterTension_LateDuration(m, reel) ==
    IF reel
    THEN LET reduction == RoundHundredths(10 * m.reel_factor)
         IN  Max(m.tension - reduction, 0)
    ELSE CASE m.style = "Aggressive" -> m.tension + m.strength * 2
           [] m.style = "Endurance"  ->
                m.tension + (IF m.duration - 1 > 2 THEN m.strength
                                                   ELSE TruncDiv(m.strength, 2))
           [] m.style = "Evasive"    ->
                IF m.tension <= 5 THEN 0 ELSE m.tension + m.strength

\* the tension written by the reel / style branches of update
MeterTension(m, reel) ==
    IF reel
    THEN LET reduction == RoundHundredths(10 * m.reel_factor)
         IN  Max(m.tension - reduction, 0)
    ELSE CASE m.style = "Aggressive" -> m.tension + m.strength * 2
           [] m.style = "Endurance"  ->
                m.tension + (IF m.duration > 2 THEN m.strength
                                               ELSE TruncDiv(m.strength, 2))
           [] m.style = "Evasive"    ->
                IF m.tension <= 5 THEN 0 ELSE m.tension + m.strength

\* an update that does not count the duration down
MeterStep_NoCountdown(m, reel) ==
    [m EXCEPT !.tension = MeterTension(m, reel)]

\* the fields of the meter after update: tension, then duration -= 1
MeterStep(m, reel) ==
    [m EXCEPT !.tension = MeterTension(m, reel), !.duration = @ - 1]

\* an outcome that reports Lost on any slack line
MeterOutcome_LostOnSlack(before, m) ==
    IF m.tension >= m.max_tension THEN "Broken"
    ELSE IF m.tension = 0 THEN "Lost"
    ELSE IF m.duration <= 0 THEN "Success"
    ELSE "Ongoing"

MeterOutcome_SuccessFirst(before, m) ==
    IF m.duration <= 0 THEN "Success"
    ELSE IF m.tension >= m.max_tension THEN "Broken"
    ELSE IF before > 0 /\ m.tension = 0 THEN "Lost"
    ELSE "Ongoing"

\* the MeterState returned by update, from the tension before the call and
\* the meter after it
MeterOutcome(before, m) ==
    IF m.tension >= m.max_tension THEN "Broken"
    ELSE IF before > 0 /\ m.tension = 0 THEN "Lost"
    ELSE IF m.duration <= 0 THEN "Success"
    ELSE "Ongoing"

\* TensionMeter::update: the meter it leaves and the state it returns
TensionMeter_update(m, reel) ==
    LET n == MeterStep(m, reel)
    IN  [meter |-> n, state |-> MeterOutcome(m.tension, n)]

\* fishing::bite_probability, in hundredths; bait_bonus in hundredths
bite_probability(tile, bait_bonus) ==
    LET depth_bonus == CASE tile = "ShallowWater" -> 10
                         [] tile = "DeepWater"    -> 30
                         [] tile = "Land"         -> 0
    IN  Max(0, Min(30 + depth_bonus + bait_bonus, 100))

\* impl Default for TensionMeter
TensionMeter_default == TensionMeter_new(5, "Aggressive", 100)

(***************************************************************************)
(* crates/game-core: constants                                             *)
(***************************************************************************)
VIEW_WIDTH == 60
VIEW_HEIGHT == 17
LINE_DAMAGE == 15
HAZARD_DAMAGE == 1
HAZARD_DURATION == 3
HAZARD_CHANCE == 8
MAX_HUNGER == 100
EAT_RAW_FISH == 20
EAT_COOKED_FISH == 40
EAT_CANNED_FOOD == 60
COOK_HP_RESTORE == 2
MAX_HP == 10
TIME_SEGMENT_TURNS == 10
TIDE_TURNS == 20
TIMES == <<"Dawn", "Day", "Dusk", "Night">>
\* the count passed to spawn_fish_population by the session
SPAWN_COUNT == 5
\* GameMode::Fishing { wait: 2 } set by confirm_cast
CAST_WAIT == 2
\* storm_turns set when a storm starts
STORM_TURNS == 5
\* line integrity of a new player
START_LINE == 100

Areas == {"Coast", "Offshore", "DeepSea"}
Difficulties == {"Easy", "Normal", "Hard"}

Pt(x, y) == [x |-> x, y |-> y]

Clamp(v, lo, hi) == IF v < lo THEN lo ELSE IF v > hi THEN hi ELSE v

Abs(n) == IF n < 0 THEN -n ELSE n

\* Area::size
Area_size(area) ==
    CASE area = "Coast"    -> <<80, 50>>
      [] area = "Offshore" -> <<120, 80>>
      [] area = "DeepSea"  -> <<160, 120>>

\* Area::hazard_multiplier
Area_hazard_multiplier(area) ==
    CASE area = "Coast"    -> 1
      [] area = "Offshore" -> 2
      [] area = "DeepSea"  -> 3

\* Difficulty::hunger_loss
hunger_loss(difficulty, turn) ==
    CASE difficulty = "Easy"   -> IF turn % 2 = 0 THEN 1 ELSE 0
      [] difficulty = "Normal" -> 1
      [] difficulty = "Hard"   -> 2

\* Difficulty::hazard_chance
hazard_chance(difficulty, area) ==
    LET base == CASE difficulty = "Easy"   -> HAZARD_CHANCE \div 2
                  [] difficulty = "Normal" -> HAZARD_CHANCE
                  [] difficulty = "Hard"   -> HAZARD_CHANCE * 2
    IN  base * Area_hazard_multiplier(area)

(***************************************************************************)
(* crates/mapgen: Map and generate                                         *)
(*                                                                         *)
(* A generated map is kept as its dimensions and the seed of its noise     *)
(* field; its tile and depth arrays are the values generate computes       *)
(* from the noise of each cell.  NoiseAt stands for FastNoise::get_noise   *)
(* (Perlin, frequency 0.08), in hundredths.                                *)
(***************************************************************************)
NoiseAt(seed, x, y) == ((3 * x + 5 * y + 11 * seed) % 9) * 10 - 50

\* the tile kind generate gives a cell of noise value v (hundredths)
TileOfNoise(v) ==
    IF v < -20 THEN "DeepWater"
    ELSE IF v < 0 THEN "ShallowWater"
    ELSE "Land"

\* the depth generate gives a cell of noise value v (hundredths)
DepthOfNoise(v) ==
    LET kind  == TileOfNoise(v)
        depth == IF kind = "Land" THEN 0 ELSE -v
    IN  Max(depth, 0)

\* f32::round of a number of thousandths: to the nearest whole number of
\* tens, halves away from zero
RoundTens(x) ==
    IF x >= 0 THEN (x + 5) \div 10 ELSE -((-x + 5) \div 10)

\* a classification that counts the thresholds themselves as water
KindOfNoise_Inclusive(v) ==
    IF v <= -200 THEN "DeepWater"
    ELSE IF v <= 0 THEN "ShallowWater"
    ELSE "Land"

\* generate, the kind of a cell of noise value v, v in thousandths
KindOfNoise(v) ==
    IF v < -200 THEN "DeepWater"
    ELSE IF v < 0 THEN "ShallowWater"
    ELSE "Land"

\* generate, the body of the loop for a cell of noise value v (thousandths):
\* the tile and the depth it writes
generate_cell(v) ==
    LET kind  == KindOfNoise(v)
        depth == IF kind = "Land" THEN 0 ELSE RoundTens(-v)
    IN  [v |-> v, tile |-> kind, depth |-> Max(depth, 0)]

\* mapgen::generate
generate(seed, width, height) ==
    [width |-> width, height |-> height, seed |-> seed]

InBounds(map, pt) ==
    /\ 0 <= pt.x /\ pt.x < map.width
    /\ 0 <= pt.y /\ pt.y < map.height

\* Map::idx, counted from 1
Map_idx(map, pt) == pt.y * map.width + pt.x + 1

\* Map::new: every tile Land, every depth 0
Map_new(width, height) ==
    [width |-> width, height |-> height,
     tiles |-> [k \in 1..(width * height) |-> "Land"],
     depths |-> [k \in 1..(width * height) |-> 0]]

\* map.tiles[map.idx(pt)]: a generated map is kept as its seed, a map built
\* by hand as its tiles
Map_tile(map, pt) ==
    IF "tiles" \in DOMAIN map THEN map.tiles[Map_idx(map, pt)]
    ELSE TileOfNoise(NoiseAt(map.seed, pt.x, pt.y))

\* Map::depth
Map_depth(map, pt) ==
    IF "depths" \in DOMAIN map THEN map.depths[Map_idx(map, pt)]
    ELSE DepthOfNoise(NoiseAt(map.seed, pt.x, pt.y))

IsWater(tile) == tile \in {"ShallowWater", "DeepWater"}

(***************************************************************************)
(* crates/data: the species table (assets/fish.json).  rarity is in        *)
(* hundredths.                                                             *)
(***************************************************************************)
FishTypes ==
    << [id |-> "TUNA", rarity |-> 60, strength |-> 25, min_depth |-> 20,
        max_depth |-> 100, fight_style |-> "Aggressive"],
       [id |-> "CARP", rarity |-> 100, strength |-> 8, min_depth |-> 0,
        max_depth |-> 40, fight_style |-> "Endurance"],
       [id |-> "EEL", rarity |-> 30, strength |-> 3, min_depth |-> 10,
        max_depth |-> 100, fight_style |-> "Evasive"],
       [id |-> "KRAKEN", rarity |-> 5, strength |-> 40, min_depth |-> 90,
        max_depth |-> 100, fight_style |-> "Aggressive"] >>

FishIds == {FishTypes[i].id : i \in DOMAIN FishTypes}

FishType(id) == CHOOSE ft \in {FishTypes[i] : i \in DOMAIN FishTypes} : ft.id = id

(***************************************************************************)
(* crates/ecology: update_fish                                             *)
(***************************************************************************)
SCHOOL_RADIUS == 4

Signum(n) == IF n > 0 THEN 1 ELSE IF n < 0 THEN -1 ELSE 0

Manhattan(p, q) == Abs(p.x - q.x) + Abs(p.y - q.y)

\* the position of the nearest same-species fish within SCHOOL_RADIUS of
\* fish i (the first such fish in population order among the nearest) as a
\* one-element sequence, or <<>> when there is none
NearestSchoolmate(fishes, i) ==
    LET pos  == fishes[i].position
        near == {j \in DOMAIN fishes :
                    /\ j # i
                    /\ fishes[j].kind = fishes[i].kind
                    /\ Manhattan(fishes[j].position, pos) <= SCHOOL_RADIUS}
    IN  IF near = {} THEN <<>>
        ELSE LET best == CHOOSE j \in near :
                            \A k \in near :
                               \/ Manhattan(fishes[j].position, pos)
                                    < Manhattan(fishes[k].position, pos)
                               \/ /\ Manhattan(fishes[j].position, pos)
                                       = Manhattan(fishes[k].position, pos)
                                  /\ j <= k
             IN  <<fishes[best].position>>

FishSpeed(time_of_day) == IF time_of_day = "Night" THEN 2 ELSE 1

\* a loop body that takes the candidate cell without looking at its tile
MoveFish_NoWaterTest(map, fishes, i, draw, speed) ==
    LET pos     == fishes[i].position
        new_pt  == Pt(Clamp(pos.x + Clamp(draw[1], -speed, speed), 0,
                            map.width - 1),
                      Clamp(pos.y + Clamp(draw[2], -speed, speed), 0,
                            map.height - 1))
    IN  [fishes EXCEPT ![i].position = new_pt]

\* one iteration of the loop of update_fish: fish i with random deltas draw
MoveFish(map, fishes, i, draw, speed) ==
    LET pos     == fishes[i].position
        nearest == NearestSchoolmate(fishes, i)
        dx0     == IF nearest = <<>> THEN draw[1]
                   ELSE draw[1] + Signum(nearest[1].x - pos.x)
        dy0     == IF nearest = <<>> THEN draw[2]
                   ELSE draw[2] + Signum(nearest[1].y - pos.y)
        dx      == Clamp(dx0, -speed, speed)
        dy      == Clamp(dy0, -speed, speed)
        new_pt  == Pt(Clamp(pos.x + dx, 0, map.width - 1),
                      Clamp(pos.y + dy, 0, map.height - 1))
    IN  IF IsWater(Map_tile(map, new_pt))
        THEN [fishes EXCEPT ![i].position = new_pt]
        ELSE fishes

RECURSIVE UpdateFishFrom(_, _, _, _, _)
UpdateFishFrom(map, fishes, i, draws, speed) ==
    IF i > Len(fishes) THEN fishes
    ELSE UpdateFishFrom(map, MoveFish(map, fishes, i, draws[i], speed),
                        i + 1, draws, speed)

\* ecology::update_fish; draws[i] is the pair of random deltas of fish i
update_fish(map, fishes, draws, time_of_day) ==
    UpdateFishFrom(map, fishes, 1, draws, FishSpeed(time_of_day))

\* the maps spawn_fish_population and update_fish are called on: Map::new
\* (all Land), one water tile, a 3x2 shore
EcoMaps ==
    { Map_new(5, 5),
      [width |-> 1, height |-> 1, tiles |-> <<"ShallowWater">>,
       depths |-> <<15>>],
      [width |-> 3, height |-> 2,
       tiles |-> <<"ShallowWater", "DeepWater", "Land",
                   "DeepWater", "ShallowWater", "ShallowWater">>,
       depths |-> <<10, 30, 0, 95, 5, 15>>] }
\* the species lists passed to spawn_fish_population, as species ids
SpeciesLists ==
    { <<>>, <<"KRAKEN">>, <<"CARP">>, <<"TUNA", "CARP">>, <<"KRAKEN", "EEL">> }

\* the cells of map in the order of the scan of spawn_fish_population
Cells(map) ==
    [k \in 1..(map.width * map.height) |->
        Pt((k - 1) % map.width, (k - 1) \div map.width)]

\* the water vector of spawn_fish_population
WaterOf(map) == SelectSeq(Cells(map), LAMBDA pt : IsWater(Map_tile(map, pt)))

\* Vec::swap_remove of the element at position i (counted from 1)
SwapRemove(seq, i) ==
    IF i = Len(seq) THEN SubSeq(seq, 1, Len(seq) - 1)
    ELSE [SubSeq(seq, 1, Len(seq) - 1) EXCEPT ![i] = seq[Len(seq)]]

\* the positions in water whose depth is in the range of species ft
Candidates(map, water, ft) ==
    {i \in DOMAIN water :
        /\ Map_depth(map, water[i]) >= ft.min_depth
        /\ Map_depth(map, water[i]) <= ft.max_depth}

\* a call that starts the spawn loop whatever the scan found
spawn_begin_NoCheck(map, fish_types, count) ==
    [status |-> "spawning", map |-> map, fish_types |-> fish_types,
     count |-> count, water |-> WaterOf(map), fishes |-> <<>>,
     attempts |-> 0]

\* spawn_fish_population up to its loop: the scan for water and the
\* InvalidOperation return
spawn_begin(map, fish_types, count) ==
    LET water == WaterOf(map)
    IN  [status |-> IF water = <<>> THEN "InvalidOperation" ELSE "spawning",
         map |-> map, fish_types |-> fish_types, count |-> count,
         water |-> water, fishes |-> <<>>, attempts |-> 0]

\* the condition of the while loop of spawn_fish_population
SpawnLoops(e) ==
    /\ Len(e.fishes) < e.count
    /\ e.attempts < e.count * 10
    /\ e.water # <<>>

\* one iteration of the loop with species chosen, which finds no candidate
spawn_skip(e) == [e EXCEPT !.attempts = @ + 1]

\* one iteration of the loop with species chosen and candidate idx drawn
spawn_place(e, chosen, idx) ==
    [e EXCEPT !.attempts = @ + 1,
              !.water = SwapRemove(@, idx),
              !.fishes = Append(@, [kind |-> chosen.id,
                                    position |-> e.water[idx]])]

(***************************************************************************)
(* crates/game-core: LurhookGame                                           *)
(*                                                                         *)
(* The session is one record with the fields of struct LurhookGame that    *)
(* the simulation reads or writes.  GameMode is a record tagged by kind.   *)
(***************************************************************************)
Exploring == [kind |-> "Exploring"]
Aiming(target) == [kind |-> "Aiming", target |-> target]
Fishing(wait) == [kind |-> "Fishing", wait |-> wait]
End(score) == [kind |-> "End", score |-> score]

\* UIContext::add_log, keeping the lines logged since the step began
Log(g, msg) == [g EXCEPT !.ui.log = Append(@, msg)]

\* Vec::remove at 0-based index idx
RemoveAt(s, idx) ==
    [k \in 1..(Len(s) - 1) |-> IF k <= idx THEN s[k] ELSE s[k + 1]]

\* all but the last element (Vec::pop on a non-empty vector)
Front(s) == SubSeq(s, 1, Len(s) - 1)

\* InputConfig::default: the key bound to each action
DefaultInput ==
    [left |-> "H", right |-> "L", up |-> "K", down |-> "J",
     up_left |-> "Y", up_right |-> "U", down_left |-> "B", down_right |-> "N",
     cast |-> "C", reel |-> "R", inventory |-> "I", eat |-> "X", cook |-> "F",
     snack |-> "G", save |-> "S", quit |-> "Q", end_run |-> "Return",
     scroll_up |-> "PageUp", scroll_down |-> "PageDown", help |-> "F1",
     options |-> "O"]

\* LurhookGame::camera
camera(g) ==
    LET half_w == VIEW_WIDTH \div 2
        half_h == VIEW_HEIGHT \div 2
    IN  Pt(Clamp(g.player.pos.x - half_w, 0, g.map.width - VIEW_WIDTH),
           Clamp(g.player.pos.y - half_h, 0, g.map.height - VIEW_HEIGHT))

RECURSIVE LinePathFrom(_, _, _, _, _, _, _, _)
LinePathFrom(x, y, err, dx, dy, sx, sy, end) ==
    IF x = end.x /\ y = end.y THEN <<Pt(x, y)>>
    ELSE LET e2   == 2 * err
             stpx == e2 >= dy
             err1 == IF stpx THEN err + dy ELSE err
             x1   == IF stpx THEN x + sx ELSE x
             stpy == e2 <= dx
             err2 == IF stpy THEN err1 + dx ELSE err1
             y1   == IF stpy THEN y + sy ELSE y
         IN  <<Pt(x, y)>> \o LinePathFrom(x1, y1, err2, dx, dy, sx, sy, end)

\* LurhookGame::line_path: the cells from start to end, start excluded
line_path(start, end) ==
    LET dx == Abs(end.x - start.x)
        dy == -Abs(end.y - start.y)
        sx == IF start.x < end.x THEN 1 ELSE -1
        sy == IF start.y < end.y THEN 1 ELSE -1
    IN  Tail(LinePathFrom(start.x, start.y, dx + dy, dx, dy, sx, sy, end))

\* a move that is not clamped
try_move_NoClamp(g, delta) ==
    LET pos == Pt(g.player.pos.x + delta.x, g.player.pos.y + delta.y)
    IN  [g EXCEPT !.player.pos = pos, !.depth = Map_depth(g.map, pos)]

\* LurhookGame::try_move
try_move(g, delta) ==
    LET pos == Pt(Clamp(g.player.pos.x + delta.x, 0, g.map.width - 1),
                  Clamp(g.player.pos.y + delta.y, 0, g.map.height - 1))
    IN  [g EXCEPT !.player.pos = pos, !.depth = Map_depth(g.map, pos)]

\* ((1.0 / rarity) * 10.0) as i32 for a rarity in hundredths
ScoreOf(rarity) == TruncDiv(1000, rarity)

RECURSIVE SumScores(_)
SumScores(inv) ==
    IF inv = <<>> THEN 0
    ELSE ScoreOf(FishType(Head(inv)).rarity) + SumScores(Tail(inv))

\* LurhookGame::score
score(g) == SumScores(g.player.inventory)

\* LurhookGame::end_run (the logged line also carries the score)
end_run(g) == [Log(g, "Run ended!") EXCEPT !.mode = End(score(g))]

\* LurhookGame::cycle_cast_key
cycle_cast_key(g) ==
    [g EXCEPT !.input.cast = CASE @ = "C" -> "X"
                               [] @ = "X" -> "Z"
                               [] @ = "Z" -> "C"
                               [] OTHER   -> "C"]

cast_IgnoresFish(g) ==
    IF g.player.line <= 0 THEN Log(g, "Your line is broken!")
    ELSE [Log(g, "Select target...") EXCEPT !.mode = Aiming(g.player.pos)]

\* LurhookGame::cast
cast(g) ==
    IF g.player.line <= 0 THEN Log(g, "Your line is broken!")
    ELSE IF g.fishes = <<>> THEN Log(g, "No fish around.")
    ELSE [Log(g, "Select target...") EXCEPT !.mode = Aiming(g.player.pos)]

confirm_cast_NoWait(g) ==
    IF g.mode.kind = "Aiming"
    THEN [Log(g, "Casting...") EXCEPT
                   !.cast_path = <<line_path(g.player.pos, g.mode.target)>>,
                   !.cast_step = 0,
                   !.ui.layout = "Fishing",
                   !.mode = Fishing(0)]
    ELSE g

\* LurhookGame::confirm_cast
confirm_cast(g) ==
    IF g.mode.kind = "Aiming"
    THEN [Log(g, "Casting...") EXCEPT
                   !.cast_path = <<line_path(g.player.pos, g.mode.target)>>,
                   !.cast_step = 0,
                   !.ui.layout = "Fishing",
                   !.mode = Fishing(CAST_WAIT)]
    ELSE g

\* LurhookGame::eat_fish
eat_fish(g) ==
    IF g.player.inventory # <<>>
    THEN [Log(g, "You ate a raw fish.") EXCEPT
                   !.player.inventory = Front(@),
                   !.player.hunger = Min(@ + EAT_RAW_FISH, MAX_HUNGER)]
    ELSE Log(g, "No fish to eat.")

\* a cook_fish that restores hp without the cap at MAX_HP
cook_fish_NoCap(g) ==
    IF Map_tile(g.map, g.player.pos) # "Land"
    THEN Log(g, "You need to be on land to cook.")
    ELSE IF g.player.inventory # <<>>
    THEN [Log(g, "You cooked and ate a fish.") EXCEPT
                   !.player.inventory = Front(@),
                   !.player.hunger = Min(@ + EAT_COOKED_FISH, MAX_HUNGER),
                   !.player.hp = @ + COOK_HP_RESTORE]
    ELSE Log(g, "No fish to cook.")

\* LurhookGame::cook_fish
cook_fish(g) ==
    IF Map_tile(g.map, g.player.pos) # "Land"
    THEN Log(g, "You need to be on land to cook.")
    ELSE IF g.player.inventory # <<>>
    THEN [Log(g, "You cooked and ate a fish.") EXCEPT
                   !.player.inventory = Front(@),
                   !.player.hunger = Min(@ + EAT_COOKED_FISH, MAX_HUNGER),
                   !.player.hp = Min(@ + COOK_HP_RESTORE, MAX_HP)]
    ELSE Log(g, "No fish to cook.")

\* LurhookGame::eat_canned_food
eat_canned_food(g) ==
    IF g.player.canned_food > 0
    THEN [Log(g, "You ate canned food.") EXCEPT
                   !.player.canned_food = @ - 1,
                   !.player.hunger = Min(@ + EAT_CANNED_FOOD, MAX_HUNGER)]
    ELSE Log(g, "No canned food available.")

\* the match on item.kind in activate_selected_item, items already without item
ActivateItem(g, item) ==
    CASE item.kind = "Rod" ->
           [g EXCEPT !.player.rod = <<item>>,
                     !.player.items = IF g.player.rod = <<>> THEN @
                                      ELSE Append(@, g.player.rod[1]),
                     !.player.tension_bonus = item.tension_bonus]
      [] item.kind = "Reel" ->
           [g EXCEPT !.player.reel = <<item>>,
                     !.player.items = IF g.player.reel = <<>> THEN @
                                      ELSE Append(@, g.player.reel[1]),
                     !.player.reel_factor = item.reel_factor]
      [] item.kind = "Lure" ->
           [g EXCEPT !.player.lure = <<item>>,
                     !.player.items = IF g.player.lure = <<>> THEN @
                                      ELSE Append(@, g.player.lure[1]),
                     !.player.bait_bonus = item.bite_bonus]
      [] item.kind = "Food" ->
           [Log(g, "You ate food.") EXCEPT
                     !.player.hunger = Min(@ + EAT_CANNED_FOOD, MAX_HUNGER)]

\* LurhookGame::activate_selected_item
activate_selected_item(g) ==
    LET idx == g.inventory_cursor
        g1  == IF idx < Len(g.player.items)
               THEN ActivateItem([g EXCEPT !.player.items = RemoveAt(@, idx)],
                                 g.player.items[idx + 1])
               ELSE LET fidx == idx - Len(g.player.items)
                    IN  IF fidx < Len(g.player.inventory)
                        THEN [Log(g, "You ate a raw fish.") EXCEPT
                                !.player.inventory = RemoveAt(@, fidx),
                                !.player.hunger = Min(@ + EAT_RAW_FISH, MAX_HUNGER)]
                        ELSE g
        total == Len(g1.player.items) + Len(g1.player.inventory)
    IN  IF g1.inventory_cursor >= total /\ total > 0
        THEN [g1 EXCEPT !.inventory_cursor = total - 1]
        ELSE g1

(***************************************************************************)
(* crates/codex: the capture ledger, a map from species id to count        *)
(***************************************************************************)
RECURSIVE SumOver(_, _)
SumOver(f, ids) ==
    IF ids = {} THEN 0
    ELSE LET id == CHOOSE i \in ids : TRUE
         IN  f[id] + SumOver(f, ids \ {id})

\* Codex::total_captures
total_captures(codex) == SumOver(codex, DOMAIN codex)

\* Codex::record_capture
record_capture(codex, id) == [codex EXCEPT ![id] = @ + 1]

(***************************************************************************)
(* The populations the session gets from spawn_fish_population.  The       *)
(* generator of spawn_fish_population is unseeded, so its result is an     *)
(* input of the session: SpawnedPopulation(map, n) is one population of n  *)
(* fish the call can return on a generated map (n < SPAWN_COUNT when the   *)
(* species rolled has no tile of its depth range in enough attempts).      *)
(***************************************************************************)
SpawnOffsets ==
    << <<0, 0>>, <<0, 2>>, <<-1, 1>>, <<1, 0>>, <<0, -1>>,
       <<0, 1>>, <<2, 0>>, <<1, -1>>, <<1, 1>> >>

MapCenter(map) == Pt(map.width \div 2, map.height \div 2)

\* the cells around the centre of the map, in SpawnOffsets order
SpawnCells(map) ==
    [k \in DOMAIN SpawnOffsets |->
        Pt(MapCenter(map).x + SpawnOffsets[k][1],
           MapCenter(map).y + SpawnOffsets[k][2])]

FitsDepth(ft, depth) == depth >= ft.min_depth /\ depth <= ft.max_depth

\* the first species, counting from table index k, whose depth range holds depth
SpeciesFor(depth, k) ==
    LET n    == Len(FishTypes)
        rot  == [j \in 1..n |-> ((k + j - 2) % n) + 1]
        fits == {j \in 1..n : FitsDepth(FishTypes[rot[j]], depth)}
    IN  IF fits = {} THEN <<>>
        ELSE <<FishTypes[rot[CHOOSE j \in fits : \A i \in fits : j <= i]].id>>

RECURSIVE SpawnFrom(_, _, _, _)
SpawnFrom(map, cells, k, n) ==
    IF n = 0 \/ k > Len(cells) THEN <<>>
    ELSE LET pt == cells[k]
             sp == IF IsWater(Map_tile(map, pt))
                   THEN SpeciesFor(Map_depth(map, pt), k)
                   ELSE <<>>
         IN  IF sp = <<>> THEN SpawnFrom(map, cells, k + 1, n)
             ELSE <<[kind |-> sp[1], position |-> pt]>>
                    \o SpawnFrom(map, cells, k + 1, n - 1)

SpawnedPopulation(map, n) == SpawnFrom(map, SpawnCells(map), 1, n)

\* an upgrade arm that regenerates the map without counting the seed up
UpgradeTo_KeepSeed(g, area, n) ==
    LET size == Area_size(area)
        map  == generate(g.seed, size[1], size[2])
        msg  == IF area = "Offshore" THEN "Unlocked offshore area!"
                ELSE "Unlocked deep sea!"
    IN  [Log(g, msg) EXCEPT
                  !.area = area,
                  !.map = map,
                  !.fishes = SpawnedPopulation(map, n),
                  !.player.pos = Pt(map.width \div 2, map.height \div 2)]

\* the population spawned when the spawn's own generator, which is not
\* seeded (RandomNumberGenerator::new()), takes outcome r
SpawnedWith(map, n, r) ==
    LET cells == SpawnCells(map)
        turned == [k \in DOMAIN cells |-> cells[((k + r - 1) % Len(cells)) + 1]]
    IN  SpawnFrom(map, turned, 1, n)

\* the arm of check_area_upgrade taken for the next area
UpgradeTo(g, area, n) ==
    LET seed == g.seed + 1
        size == Area_size(area)
        map  == generate(seed, size[1], size[2])
        msg  == IF area = "Offshore" THEN "Unlocked offshore area!"
                ELSE "Unlocked deep sea!"
    IN  [Log(g, msg) EXCEPT
                  !.area = area,
                  !.seed = seed,
                  !.map = map,
                  !.fishes = SpawnedPopulation(map, n),
                  !.player.pos = Pt(map.width \div 2, map.height \div 2)]

\* an upgrade check that goes straight to the last area the total allows
check_area_upgrade_SkipTier(g, n) ==
    LET total == total_captures(g.codex)
    IN  CASE g.area # "DeepSea" /\ total >= 6 -> UpgradeTo(g, "DeepSea", n)
          [] g.area = "Coast" /\ total >= 3   -> UpgradeTo(g, "Offshore", n)
          [] OTHER                            -> g

\* LurhookGame::check_area_upgrade; n is the size of the population the
\* spawn of an upgrade returns
check_area_upgrade(g, n) ==
    LET total == total_captures(g.codex)
    IN  CASE g.area = "Coast" /\ total >= 3    -> UpgradeTo(g, "Offshore", n)
          [] g.area = "Offshore" /\ total >= 6 -> UpgradeTo(g, "DeepSea", n)
          [] OTHER                             -> g

\* the wait branch of update_fishing
FishingWait(g) ==
    LET g1 == IF g.cast_path # <<>>
              THEN IF g.cast_step < Len(g.cast_path[1])
                   THEN [g EXCEPT !.cast_step = @ + 1]
                   ELSE [g EXCEPT !.cast_path = <<>>]
              ELSE g
    IN  [g1 EXCEPT !.mode.wait = @ - 1]

\* a bite roll that reads the tile the cast landed on
FishingBite_AtTarget(g, roll) ==
    LET path   == IF g.cast_path = <<>> THEN <<>> ELSE g.cast_path[1]
        tile   == IF path # <<>> THEN Map_tile(g.map, path[Len(path)])
                  ELSE Map_tile(g.map, g.player.pos)
        chance == bite_probability(tile, g.player.bait_bonus)
        m0     == IF g.fishes # <<>>
                  THEN LET kind == FishType(g.fishes[1].kind)
                       IN  TensionMeter_new(kind.strength, kind.fight_style,
                                            g.player.reel_factor)
                  ELSE TensionMeter_default
        m      == [m0 EXCEPT !.max_tension = @ + g.player.tension_bonus]
    IN  IF roll < chance
        THEN [Log(g, "Hooked a fish!") EXCEPT !.meter = <<m>>]
        ELSE [Log(g, "The fish got away...") EXCEPT
                 !.mode = Exploring, !.ui.layout = "Standard"]

\* the bite roll of update_fishing; roll is the draw of rng.range(0.0, 1.0)
\* in hundredths
FishingBite(g, roll) ==
    LET tile   == IF g.fishes # <<>>
                  THEN Map_tile(g.map, g.fishes[1].position)
                  ELSE "ShallowWater"
        chance == bite_probability(tile, g.player.bait_bonus)
        bite   == roll < chance
        m0     == IF g.fishes # <<>>
                  THEN LET kind == FishType(g.fishes[1].kind)
                       IN  TensionMeter_new(kind.strength, kind.fight_style,
                                            g.player.reel_factor)
                  ELSE TensionMeter_default
        m      == [m0 EXCEPT !.max_tension = @ + g.player.tension_bonus]
    IN  IF bite
        THEN [Log(g, "Hooked a fish!") EXCEPT !.meter = <<m>>]
        ELSE [Log(g, "The fish got away...") EXCEPT
                 !.mode = Exploring, !.ui.layout = "Standard"]

FishingSuccess_PopFirst(g, n) ==
    LET g1 == IF g.fishes # <<>>
              THEN LET fish == g.fishes[1]
                   IN  check_area_upgrade(
                         [Log(g, "Caught a fish!") EXCEPT
                                   !.fishes = Tail(@),
                                   !.player.inventory = Append(@, fish.kind),
                                   !.codex = record_capture(@, fish.kind)], n)
              ELSE g
    IN  [g1 EXCEPT !.mode = Exploring, !.ui.layout = "Standard"]

\* a Success arm that leaves the line in the water
FishingSuccess_StaysFishing(g, n) ==
    IF g.fishes # <<>>
    THEN LET fish == g.fishes[Len(g.fishes)]
         IN  check_area_upgrade(
               [Log(g, "Caught a fish!") EXCEPT
                         !.fishes = Front(@),
                         !.player.inventory = Append(@, fish.kind),
                         !.codex = record_capture(@, fish.kind)], n)
    ELSE g

\* the Success arm of update_fishing
FishingSuccess(g, n) ==
    LET g1 == IF g.fishes # <<>>
              THEN LET fish == g.fishes[Len(g.fishes)]
                   IN  check_area_upgrade(
                         [Log(g, "Caught a fish!") EXCEPT
                                   !.fishes = Front(@),
                                   !.player.inventory = Append(@, fish.kind),
                                   !.codex = record_capture(@, fish.kind)], n)
              ELSE g
    IN  [g1 EXCEPT !.mode = Exploring, !.ui.layout = "Standard"]

FishingBroken_NoClamp(g) ==
    LET g0 == Log(g, "Line snapped!")
        g1 == IF g0.player.line > 0
              THEN [g0 EXCEPT !.player.line = @ - LINE_DAMAGE]
              ELSE g0
    IN  [g1 EXCEPT !.mode = Exploring, !.ui.layout = "Standard"]

\* the Broken arm of update_fishing
FishingBroken(g) ==
    LET g0 == Log(g, "Line snapped!")
        g1 == IF g0.player.line > 0
              THEN LET g2 == [g0 EXCEPT !.player.line = Max(@ - LINE_DAMAGE, 0)]
                   IN  IF g2.player.line = 0
                       THEN Log(g2, "Your line is ruined.") ELSE g2
              ELSE g0
    IN  [g1 EXCEPT !.mode = Exploring, !.ui.layout = "Standard"]

\* a Lost arm in which the fish that escaped leaves the population
FishingLost_FishLeaves(g) ==
    [Log(g, "The fish escaped!") EXCEPT
        !.fishes = IF @ = <<>> THEN @ ELSE Tail(@),
        !.mode = Exploring, !.ui.layout = "Standard"]

FishingLost_Penalty(g) ==
    [Log(g, "The fish escaped!") EXCEPT
        !.player.line = Max(@ - LINE_DAMAGE, 0),
        !.mode = Exploring, !.ui.layout = "Standard"]

\* the Lost arm of update_fishing
FishingLost(g) ==
    [Log(g, "The fish escaped!") EXCEPT
        !.mode = Exploring, !.ui.layout = "Standard"]

\* a meter branch that reads the meter without taking it
FishingMeter_KeepsMeter(g, n) ==
    LET r == TensionMeter_update(g.meter[1], g.reeling)
    IN  CASE r.state = "Ongoing" -> [g EXCEPT !.meter = <<r.meter>>]
          [] r.state = "Success" -> FishingSuccess(g, n)
          [] r.state = "Broken"  -> FishingBroken(g)
          [] r.state = "Lost"    -> FishingLost(g)

\* the meter branch of update_fishing: meter.take(), update, match
FishingMeter(g, n) ==
    LET r  == TensionMeter_update(g.meter[1], g.reeling)
        g0 == [g EXCEPT !.meter = <<>>]
    IN  CASE r.state = "Ongoing" -> [g0 EXCEPT !.meter = <<r.meter>>]
          [] r.state = "Success" -> FishingSuccess(g0, n)
          [] r.state = "Broken"  -> FishingBroken(g0)
          [] r.state = "Lost"    -> FishingLost(g0)

\* LurhookGame::update_fishing
update_fishing(g, roll, n) ==
    IF g.mode.kind # "Fishing" THEN g
    ELSE IF g.mode.wait > 0 THEN FishingWait(g)
    ELSE IF g.meter = <<>> THEN FishingBite(g, roll)
    ELSE FishingMeter(g, n)

\* what update_fishing did, for the record of the last update
FishingEvent(g, roll) ==
    IF g.mode.kind # "Fishing" THEN "none"
    ELSE IF g.mode.wait > 0 THEN "wait"
    ELSE IF g.meter = <<>>
    THEN IF FishingBite(g, roll).meter # <<>> THEN "bite" ELSE "nobite"
    ELSE TensionMeter_update(g.meter[1], g.reeling).state

(***************************************************************************)
(* crates/game-core/src/ai.rs                                              *)
(***************************************************************************)
\* a hunger step in which starvation damage does not wait for hunger 0
HungerStep_StarveAlways(g) ==
    LET loss == hunger_loss(g.difficulty, g.turn)
        g1   == [g EXCEPT !.player.hunger = Max(@ - loss, 0)]
    IN  IF g.player.hp > 0 THEN [g1 EXCEPT !.player.hp = @ - 1] ELSE g1

\* the hunger / starvation step of advance_time, turn already incremented
HungerStep(g) ==
    IF g.player.hunger > 0
    THEN LET loss == hunger_loss(g.difficulty, g.turn)
         IN  IF loss > 0
             THEN LET g1 == [g EXCEPT !.player.hunger = Max(@ - loss, 0)]
                  IN  IF g1.player.hunger = 0
                      THEN Log(g1, "You are starving!") ELSE g1
             ELSE g
    ELSE IF g.player.hp > 0
    THEN [g EXCEPT !.player.hp = @ - 1]
    ELSE g

\* the tile events of advance_time; r1 and r2 are the draws of
\* rng.range(0, 100) and coin the draw of rng.range(0, 2)
TileEvents(g, r1, r2, coin) ==
    LET tile == Map_tile(g.map, g.player.pos)
    IN  CASE tile = "Land" ->
               IF r1 < 10
               THEN IF coin = 0 /\ g.player.hp < MAX_HP
                    THEN [Log(g, "You rest on the shore.") EXCEPT
                             !.player.hp = @ + 1]
                    ELSE [Log(g, "You found canned food!") EXCEPT
                             !.player.canned_food = @ + 1]
               ELSE g
          [] tile = "DeepWater" ->
               LET g1 == IF r1 < 5
                         THEN [Log(g, "A storm reduces visibility!") EXCEPT
                                  !.storm_turns = STORM_TURNS]
                         ELSE g
               IN  IF r2 < hazard_chance(g.difficulty, g.area)
                   THEN [Log(g1, "A jellyfish appears!") EXCEPT !.hazards =
                            Append(@, [pos |-> g.player.pos,
                                       turns |-> HAZARD_DURATION])]
                   ELSE g1
          [] OTHER -> g

\* an advance_time that derives the time of day before it counts the turn
advance_time_StaleClock(g, r1, r2, coin) ==
    LET g1 == IF g.storm_turns > 0 THEN [g EXCEPT !.storm_turns = @ - 1] ELSE g
        g2 == [g1 EXCEPT !.time_of_day =
                  TIMES[((g1.turn \div TIME_SEGMENT_TURNS) % Len(TIMES)) + 1]]
        g3 == [g2 EXCEPT !.turn = @ + 1]
    IN  TileEvents(HungerStep(g3), r1, r2, coin)

\* LurhookGame::advance_time
advance_time(g, r1, r2, coin) ==
    LET g1 == IF g.storm_turns > 0 THEN [g EXCEPT !.storm_turns = @ - 1] ELSE g
        g2 == [g1 EXCEPT !.turn = @ + 1]
        g3 == [g2 EXCEPT !.time_of_day =
                  TIMES[((g2.turn \div TIME_SEGMENT_TURNS) % Len(TIMES)) + 1]]
    IN  TileEvents(HungerStep(g3), r1, r2, coin)

\* LurhookGame::current_drift
current_drift(g) ==
    IF (g.turn \div TIDE_TURNS) % 2 = 0 THEN Pt(1, 0) ELSE Pt(-1, 0)

\* the damage loop of update_hazards over hazards k..
RECURSIVE HazardDamage(_, _, _)
HazardDamage(g, hazards, k) ==
    IF k > Len(hazards) THEN g
    ELSE IF hazards[k].pos = g.player.pos
    THEN LET g1 == IF g.player.hp > 0
                   THEN [Log(g, "A jellyfish stings you!") EXCEPT
                            !.player.hp = @ - HAZARD_DAMAGE]
                   ELSE g
             g2 == IF g1.player.line > 0
                   THEN [g1 EXCEPT !.player.line = Max(@ - LINE_DAMAGE, 0)]
                   ELSE g1
         IN  HazardDamage(g2, hazards, k + 1)
    ELSE HazardDamage(g, hazards, k + 1)

\* hazards.retain(|h| h.turns > 0)
RetainActive(hazards) == SelectSeq(hazards, LAMBDA h : h.turns > 0)

\* an update_hazards whose damage loop passes over the hazards created in
\* the same tick
update_hazards_SparesNew(g) ==
    LET ticked == [k \in DOMAIN g.hazards |->
                     IF g.hazards[k].turns > 0
                     THEN [g.hazards[k] EXCEPT !.turns = @ - 1]
                     ELSE g.hazards[k]]
        older  == SelectSeq(ticked, LAMBDA h : h.turns < HAZARD_DURATION - 1)
    IN  [HazardDamage(g, older, 1) EXCEPT !.hazards = RetainActive(ticked)]

\* an update_hazards that drops the expired hazards before the damage loop
update_hazards_RetainFirst(g) ==
    LET ticked == [k \in DOMAIN g.hazards |->
                     IF g.hazards[k].turns > 0
                     THEN [g.hazards[k] EXCEPT !.turns = @ - 1]
                     ELSE g.hazards[k]]
        active == RetainActive(ticked)
    IN  [HazardDamage(g, active, 1) EXCEPT !.hazards = active]

\* LurhookGame::update_hazards
update_hazards(g) ==
    LET ticked == [k \in DOMAIN g.hazards |->
                     IF g.hazards[k].turns > 0
                     THEN [g.hazards[k] EXCEPT !.turns = @ - 1]
                     ELSE g.hazards[k]]
    IN  [HazardDamage(g, ticked, 1) EXCEPT !.hazards = RetainActive(ticked)]

(***************************************************************************)
(* crates/game-core: input                                                 *)
(***************************************************************************)
\* the movement delta of a key in handle_input_key
KeyDelta(g, key) ==
    CASE key = "Left" \/ key = g.input.left   -> Pt(-1, 0)
      [] key = "Right" \/ key = g.input.right -> Pt(1, 0)
      [] key = "Up" \/ key = g.input.up       -> Pt(0, -1)
      [] key = "Down" \/ key = g.input.down   -> Pt(0, 1)
      [] key = g.input.up_left                -> Pt(-1, -1)
      [] key = g.input.up_right               -> Pt(1, -1)
      [] key = g.input.down_left              -> Pt(-1, 1)
      [] key = g.input.down_right             -> Pt(1, 1)
      [] OTHER                                -> Pt(0, 0)

\* the movement branch of handle_input_key
MoveKey(g, delta) ==
    IF delta.x = 0 /\ delta.y = 0 THEN g
    ELSE IF g.inventory_focus
    THEN LET total == Len(g.player.items) + Len(g.player.inventory)
             c1    == IF delta.y < 0 /\ g.inventory_cursor > 0
                      THEN g.inventory_cursor - 1 ELSE g.inventory_cursor
             c2    == IF delta.y > 0 /\ c1 + 1 < total THEN c1 + 1 ELSE c1
         IN  [g EXCEPT !.inventory_cursor = c2]
    ELSE IF g.mode.kind = "Aiming"
    THEN [g EXCEPT !.mode.target =
             Pt(Clamp(@.x + delta.x, 0, g.map.width - 1),
                Clamp(@.y + delta.y, 0, g.map.height - 1))]
    ELSE try_move(g, delta)

\* the keys of the options screen
OptionsKey(g, key) ==
    IF key = "Key1" THEN cycle_cast_key(g) ELSE g

EndRunKey_AnyMode(g) ==
    IF g.inventory_focus THEN activate_selected_item(g) ELSE end_run(g)

\* the end-run key
EndRunKey(g) ==
    IF g.inventory_focus THEN activate_selected_item(g)
    ELSE IF g.mode.kind = "Exploring" THEN end_run(g)
    ELSE g

\* handle_input_key after the cast-key test
AfterCastKey(g, key) ==
    IF key = g.input.reel /\ g.mode.kind = "Fishing"
    THEN [g EXCEPT !.reeling = TRUE]
    ELSE IF key = g.input.scroll_up \/ key = g.input.scroll_down THEN g
    ELSE IF key = g.input.help
    THEN [g EXCEPT !.ui.layout = IF @ = "Help" THEN "Standard" ELSE "Help"]
    ELSE IF key = g.input.options
    THEN [g EXCEPT !.ui.layout = IF @ = "Options" THEN "Standard" ELSE "Options"]
    ELSE IF g.ui.layout = "Options" THEN OptionsKey(g, key)
    ELSE IF key = g.input.save \/ key = g.input.quit THEN g
    ELSE IF key = g.input.end_run THEN EndRunKey(g)
    ELSE IF key = g.input.inventory /\ g.mode.kind = "Exploring"
    THEN IF g.inventory_focus
         THEN [g EXCEPT !.inventory_focus = FALSE]
         ELSE [g EXCEPT !.inventory_focus = TRUE, !.inventory_cursor = 0]
    ELSE IF key = g.input.eat /\ g.inventory_focus THEN eat_fish(g)
    ELSE IF key = g.input.cook /\ g.inventory_focus THEN cook_fish(g)
    ELSE IF key = g.input.snack /\ g.inventory_focus THEN eat_canned_food(g)
    ELSE MoveKey(g, KeyDelta(g, key))

handle_input_key_CastInEnd(g, key) ==
    LET g0 == [g EXCEPT !.reeling = FALSE]
    IN  IF key = NoKey THEN g0
        ELSE IF key = g0.input.cast /\ g0.mode.kind \in {"Exploring", "End"}
        THEN cast(g0)
        ELSE IF key = g0.input.cast /\ g0.mode.kind = "Aiming"
        THEN confirm_cast(g0)
        ELSE AfterCastKey(g0, key)

\* LurhookGame::handle_input_key
handle_input_key(g, key) ==
    LET g0 == [g EXCEPT !.reeling = FALSE]
    IN  IF key = NoKey THEN g0
        ELSE IF key = g0.input.cast /\ g0.mode.kind = "Exploring" THEN cast(g0)
        ELSE IF key = g0.input.cast /\ g0.mode.kind = "Aiming"
        THEN confirm_cast(g0)
        ELSE AfterCastKey(g0, key)

\* the left-click branch of handle_input
HandleClick(g, mouse) ==
    IF mouse[1] < VIEW_WIDTH /\ mouse[2] < VIEW_HEIGHT
    THEN LET cam    == camera(g)
             target == Pt(cam.x + mouse[1], cam.y + mouse[2])
         IN  CASE g.mode.kind = "Exploring" ->
                    [g EXCEPT !.player.pos = target,
                              !.depth = Map_depth(g.map, target)]
               [] g.mode.kind = "Aiming" ->
                    [g EXCEPT !.mode.target =
                        Pt(Clamp(target.x, 0, g.map.width - 1),
                           Clamp(target.y, 0, g.map.height - 1))]
               [] OTHER -> g
    ELSE g

\* LurhookGame::handle_input; ctx is the key, the click flag and the mouse cell
handle_input(g, ctx) ==
    LET g0 == [g EXCEPT !.reeling = FALSE]
        g1 == IF ctx.left_click THEN HandleClick(g0, ctx.mouse_pos) ELSE g0
    IN  IF ctx.key # NoKey THEN handle_input_key(g1, ctx.key) ELSE g1

(***************************************************************************)
(* crates/data: the gear table (assets/items.json); factors in hundredths  *)
(***************************************************************************)
ItemTypes ==
    << [id |-> "ROD", kind |-> "Rod", tension_bonus |-> 0,
        reel_factor |-> 100, bite_bonus |-> 0],
       [id |-> "REEL", kind |-> "Reel", tension_bonus |-> 0,
        reel_factor |-> 100, bite_bonus |-> 0],
       [id |-> "LURE", kind |-> "Lure", tension_bonus |-> 0,
        reel_factor |-> 100, bite_bonus |-> 20],
       [id |-> "RATION", kind |-> "Food", tension_bonus |-> 0,
        reel_factor |-> 100, bite_bonus |-> 0] >>

\* items.iter().position(|i| i.kind == kind), 1-based, 0 when there is none
PositionOfKind(items, kind) ==
    LET at == {k \in DOMAIN items : items[k].kind = kind}
    IN  IF at = {} THEN 0 ELSE CHOOSE k \in at : \A j \in at : k <= j

\* LurhookGame::new_with_area; n is the size of the population the spawn
\* returns and codex the ledger loaded from the codex file
new_with_area(seed, difficulty, area, n, codex) ==
    LET rod_pos  == PositionOfKind(ItemTypes, "Rod")
        reel_pos == PositionOfKind(ItemTypes, "Reel")
        lure_pos == PositionOfKind(ItemTypes, "Lure")
        rod      == IF rod_pos = 0 THEN <<>> ELSE <<ItemTypes[rod_pos]>>
        reel     == IF reel_pos = 0 THEN <<>> ELSE <<ItemTypes[reel_pos]>>
        lure     == IF lure_pos = 0 THEN <<>> ELSE <<ItemTypes[lure_pos]>>
        items    == SelectSeq(ItemTypes,
                              LAMBDA i : /\ <<i>> # rod
                                         /\ <<i>> # reel
                                         /\ <<i>> # lure)
        size     == Area_size(area)
        map      == generate(seed, size[1], size[2])
        start    == Pt(map.width \div 2, map.height \div 2)
    IN  [player |->
            [pos |-> start, hp |-> MAX_HP, hunger |-> MAX_HUNGER,
             line |-> START_LINE,
             bait_bonus |-> IF lure = <<>> THEN 0 ELSE lure[1].bite_bonus,
             tension_bonus |-> IF rod = <<>> THEN 0 ELSE rod[1].tension_bonus,
             reel_factor |-> IF reel = <<>> THEN 100 ELSE reel[1].reel_factor,
             canned_food |-> 0, inventory |-> <<>>, items |-> items,
             rod |-> rod, reel |-> reel, lure |-> lure],
         map |-> map,
         fishes |-> SpawnedPopulation(map, n),
         ui |-> [layout |-> "Help", log |-> <<>>],
         input |-> DefaultInput,
         depth |-> Map_depth(map, start),
         time_of_day |-> TIMES[1],
         turn |-> 0,
         difficulty |-> difficulty,
         mode |-> Exploring,
         meter |-> <<>>,
         reeling |-> FALSE,
         storm_turns |-> 0,
         hazards |-> <<>>,
         cast_path |-> <<>>,
         cast_step |-> 0,
         inventory_cursor |-> 0,
         inventory_focus |-> FALSE,
         codex |-> codex,
         area |-> area,
         seed |-> seed]

\* the ledger Codex::load reads: total captures already recorded
LoadedCodex(total) == [id \in FishIds |-> IF id = "CARP" THEN total ELSE 0]

\* LurhookGame::new_with_difficulty and LurhookGame::new
new_with_difficulty(seed, difficulty, n, codex) ==
    new_with_area(seed, difficulty, "Coast", n, codex)

new(seed, n, codex) == new_with_difficulty(seed, "Normal", n, codex)

\* LurhookGame::load_game of a well-formed save file
load_game(save, n, codex) ==
    [new(0, n, codex) EXCEPT
        !.player.pos = Pt(save.x, save.y),
        !.player.hp = save.hp,
        !.player.hunger = save.hunger,
        !.player.canned_food = save.food,
        !.time_of_day = save.time_of_day]

(***************************************************************************)
(* State                                                                   *)
(*   game      the session (struct LurhookGame); game.ui.log holds the     *)
(*             lines logged since the current tick began                   *)
(*   pc        the place of the control thread inside LurhookGame::tick    *)
(*   entry     while a tick is under way, the session as the tick found    *)
(*             it (a one-element sequence), <<>> between ticks             *)
(*   tm ...    a TensionMeter driven on its own, the state its last        *)
(*             update returned, the meter before that update, its reel     *)
(*             flag and the number of updates so far                       *)
(*   eco       a call of spawn_fish_population on a map of its own, and    *)
(*             the update_fish calls on the population it returned         *)
(*   twin      a second session created with the arguments of game and     *)
(*             given the same inputs, or the session a restored session    *)
(*             was saved from; <<>> when there is none                     *)
(*   cell      the last cell mapgen::generate wrote, with the noise value  *)
(*             it was given (a one-element sequence), <<>> before any      *)
(***************************************************************************)
VARIABLES game, pc, entry, tm, tmOut, tmBefore, tmReel, tmN, eco, twin, cell

vars ==
    <<game, pc, entry, tm, tmOut, tmBefore, tmReel, tmN, eco, twin, cell>>

meterVars == <<tm, tmOut, tmBefore, tmReel, tmN>>

\* what the steps of a session leave alone
unitVars == <<tm, tmOut, tmBefore, tmReel, tmN, eco, twin, cell>>

\* no call of the ecology crate under way
EcoIdle == [status |-> "idle"]

gameVars == <<game, pc, entry>>

ClearLog(g) == [g EXCEPT !.ui.log = <<>>]

\* LurhookGame::tick as one step, up to the drawing: ctx is the input, d the
\* draws of advance_time, draws the deltas of update_fish, roll and n the
\* bite roll and the respawn size of update_fishing
tick(g, ctx, d, draws, roll, n) ==
    LET g1 == handle_input(ClearLog(g), ctx)
    IN  IF ctx.key # NoKey \/ ctx.left_click
        THEN LET g2 == advance_time(g1, d[1], d[2], d[3])
             IN  CASE g2.mode.kind = "Exploring" ->
                        update_hazards([g2 EXCEPT !.fishes =
                            update_fish(g2.map, @, draws, g2.time_of_day)])
                   [] g2.mode.kind = "Aiming" -> update_hazards(g2)
                   [] g2.mode.kind = "Fishing" ->
                        update_hazards(update_fishing(g2, roll, n))
                   [] g2.mode.kind = "End" -> g2
        ELSE g1

NewSession(s) == new_with_area(s[1], s[2], s[3], s[4], LoadedCodex(s[5]))

InitGame ==
    \/ \E s \in Sessions : game = NewSession(s)
    \/ \E save \in Saves : game = load_game(save, SPAWN_COUNT, LoadedCodex(0))

Init ==
    /\ InitGame
    /\ pc = "input"
    /\ entry = <<>>
    /\ tm = TensionMeter_default
    /\ tmOut = "Ongoing"
    /\ tmBefore = TensionMeter_default
    /\ tmReel = FALSE
    /\ tmN = 0
    /\ eco = EcoIdle
    /\ twin = <<>>
    /\ cell = <<>>

\* tick with a key or a left click, one of inputs: handle_input, then the
\* turn advances
TickWith(inputs) ==
    /\ pc = "input"
    /\ \E ctx \in inputs :
          /\ ctx.key # NoKey \/ ctx.left_click
          /\ game' = handle_input(ClearLog(game), ctx)
    /\ pc' = "time"
    /\ entry' = <<game>>
    /\ UNCHANGED unitVars

TickInput ==
    /\ game.turn < MaxTurn
    /\ TickWith(IF game.turn < MaxExplore THEN Inputs ELSE FishingInputs)

\* tick with neither key nor click: handle_input only
TickIdle ==
    /\ pc = "input"
    /\ game' = handle_input(ClearLog(game), Ctx(NoKey, FALSE, <<0, 0>>))
    /\ pc' = "input"
    /\ entry' = <<>>
    /\ UNCHANGED unitVars

\* tick: self.advance_time(), its draws one of draws
AdvanceWith(draws) ==
    /\ pc = "time"
    /\ \E d \in draws : game' = advance_time(game, d[1], d[2], d[3])
    /\ pc' = "update"
    /\ UNCHANGED <<entry, unitVars>>

AdvanceTime ==
    AdvanceWith(IF game.turn < MaxExplore THEN TimeDraws ELSE CalmDraws)

\* the random deltas of one update_fish call, one pair per fish
FishDraws(speed) ==
    LET base == << <<0, 0>>, <<speed, 0>>, <<-1, speed>> >>
    IN  {[i \in 1..SPAWN_COUNT |-> base[((i + k) % 3) + 1]] : k \in {0}}

\* tick, GameMode::Exploring: update_fish
UpdateExploring ==
    /\ pc = "update"
    /\ game.mode.kind = "Exploring"
    /\ \E draws \in FishDraws(FishSpeed(game.time_of_day)) :
          game' = [game EXCEPT
                      !.fishes = update_fish(game.map, @, draws, game.time_of_day)]
    /\ pc' = "hazards"
    /\ UNCHANGED <<entry, unitVars>>

\* an Aiming arm that returns from the tick like the End arm
UpdateAiming_Returns ==
    /\ pc = "update"
    /\ game.mode.kind = "Aiming"
    /\ pc' = "input"
    /\ entry' = <<>>
    /\ UNCHANGED <<game, unitVars>>

\* tick, GameMode::Aiming: nothing
UpdateAiming ==
    /\ pc = "update"
    /\ game.mode.kind = "Aiming"
    /\ pc' = "hazards"
    /\ UNCHANGED <<game, entry, unitVars>>

\* tick, GameMode::Fishing: update_fishing
UpdateFishing ==
    /\ pc = "update"
    /\ game.mode.kind = "Fishing"
    /\ \E roll \in BiteRolls, n \in PopSizes :
          game' = update_fishing(game, roll, n)
    /\ pc' = "hazards"
    /\ UNCHANGED <<entry, unitVars>>

\* tick, GameMode::End: draw the summary and return
UpdateEnd ==
    /\ pc = "update"
    /\ game.mode.kind = "End"
    /\ pc' = "input"
    /\ entry' = <<>>
    /\ UNCHANGED <<game, unitVars>>

\* tick: self.update_hazards()
UpdateHazards ==
    /\ pc = "hazards"
    /\ game' = update_hazards(game)
    /\ pc' = "input"
    /\ entry' = <<>>
    /\ UNCHANGED unitVars

Next ==
    \/ TickInput
    \/ TickIdle
    \/ AdvanceTime
    \/ UpdateExploring
    \/ UpdateAiming
    \/ UpdateFishing
    \/ UpdateEnd
    \/ UpdateHazards

Spec == Init /\ [][Next]_vars

(***************************************************************************)
(* Sessions that fish: the player casts, reels or ends the run, in each    *)
(* area and with capture ledgers around the upgrade thresholds             *)
(***************************************************************************)
InitArea ==
    /\ \E s \in AreaSessions : game = NewSession(s)
    /\ pc = "input"
    /\ entry = <<>>
    /\ tm = TensionMeter_default
    /\ tmOut = "Ongoing"
    /\ tmBefore = TensionMeter_default
    /\ tmReel = FALSE
    /\ tmN = 0
    /\ eco = EcoIdle
    /\ twin = <<>>
    /\ cell = <<>>

TickArea ==
    /\ game.turn < MaxAreaTurn
    /\ TickWith(FishingInputs)

AdvanceArea == AdvanceWith(CalmDraws)

NextArea ==
    \/ TickArea
    \/ AdvanceArea
    \/ UpdateExploring
    \/ UpdateAiming
    \/ UpdateFishing
    \/ UpdateEnd
    \/ UpdateHazards

SpecArea == InitArea /\ [][NextArea]_vars

(***************************************************************************)
(* Sessions that fish for MaxTurn turns and then look after the player:    *)
(* moving to the shore, eating, cooking, canned food, item activation,     *)
(* under any draws of advance_time                                         *)
(***************************************************************************)
TickStats ==
    /\ game.turn < MaxStatTurn
    /\ TickWith(IF game.turn < MaxTurn THEN FishingInputs ELSE CareInputs)

AdvanceStats == AdvanceWith(IF game.turn < MaxTurn THEN CalmDraws ELSE TimeDraws)

NextStats ==
    \/ TickStats
    \/ AdvanceStats
    \/ UpdateExploring
    \/ UpdateAiming
    \/ UpdateFishing
    \/ UpdateEnd
    \/ UpdateHazards

SpecStats == Init /\ [][NextStats]_vars

(***************************************************************************)
(* The ecology crate on its own: one call of spawn_fish_population, its    *)
(* loop one iteration per step, then update_fish calls on the population   *)
(* it returned, at any time of day and with any random deltas. In status   *)
(* "Ok" with updates = 0, fishes is the population as it was returned.     *)
(***************************************************************************)
InitEco ==
    /\ game = NewSession(<<0, "Normal", "Coast", 0, 0>>)
    /\ pc = "eco"
    /\ entry = <<>>
    /\ tm = TensionMeter_default
    /\ tmOut = "Ongoing"
    /\ tmBefore = TensionMeter_default
    /\ tmReel = FALSE
    /\ tmN = 0
    /\ eco = EcoIdle
    /\ twin = <<>>
    /\ cell = <<>>

ecoRest ==
    <<game, pc, entry, tm, tmOut, tmBefore, tmReel, tmN, twin, cell>>

\* spawn_fish_population is called: the scan for water tiles
SpawnCall ==
    /\ eco.status = "idle"
    /\ \E map \in EcoMaps, ids \in SpeciesLists, count \in 0..MaxCount :
          eco' = spawn_begin(map, [k \in DOMAIN ids |-> FishType(ids[k])], count)
    /\ UNCHANGED ecoRest

\* an iteration of the loop on an empty species list: &fish_types[0] panics
SpawnPanic ==
    /\ eco.status = "spawning"
    /\ SpawnLoops(eco)
    /\ eco.fish_types = <<>>
    /\ eco' = [eco EXCEPT !.status = "panic"]
    /\ UNCHANGED ecoRest

\* an iteration of the loop: any species of the list can be the one rolled,
\* any of its candidates the one drawn
SpawnAttempt ==
    /\ eco.status = "spawning"
    /\ SpawnLoops(eco)
    /\ \E k \in DOMAIN eco.fish_types :
          LET chosen == eco.fish_types[k]
              cands  == Candidates(eco.map, eco.water, chosen)
          IN  IF cands = {} THEN eco' = spawn_skip(eco)
              ELSE \E idx \in cands : eco' = spawn_place(eco, chosen, idx)
    /\ UNCHANGED ecoRest

\* the loop is over: Ok(fishes), and fishes is from now on the vector the
\* caller holds; the locals water and attempts are gone. moved is the largest distance along an axis a fish covered in the last
\* update_fish call, time_of_day the argument of that call
SpawnReturn ==
    /\ eco.status = "spawning"
    /\ ~SpawnLoops(eco)
    /\ eco' = [status |-> "Ok", map |-> eco.map, fish_types |-> eco.fish_types,
               count |-> eco.count, water |-> <<>>,
               fishes |-> eco.fishes, attempts |-> 0,
               moved |-> 0,
               time_of_day |-> "Dawn", updates |-> 0]
    /\ UNCHANGED ecoRest

\* the largest distance along an axis between a fish of before and of after
MaxMoved(before, after) ==
    LET d == {Abs(after[i].position.x - before[i].position.x) :
                 i \in DOMAIN before}
             \cup {Abs(after[i].position.y - before[i].position.y) :
                 i \in DOMAIN before}
    IN  IF d = {} THEN 0 ELSE CHOOSE m \in d : \A n \in d : n <= m

\* the random deltas of one update_fish call, a pair per fish
DeltaDraws(n, speed) ==
    [1..n -> {<<dx, dy>> : dx \in (-speed)..speed, dy \in (-speed)..speed}]

\* update_fish on the returned population
FishUpdate ==
    /\ eco.status = "Ok"
    /\ eco.updates < MaxFishUpdates
    /\ \E time_of_day \in {TIMES[k] : k \in DOMAIN TIMES} :
          \E draws \in DeltaDraws(Len(eco.fishes), FishSpeed(time_of_day)) :
             LET after == update_fish(eco.map, eco.fishes, draws,
                                      time_of_day)
             IN  eco' = [eco EXCEPT
                            !.moved = MaxMoved(eco.fishes, after),
                            !.time_of_day = time_of_day,
                            !.updates = @ + 1,
                            !.fishes = after]
    /\ UNCHANGED ecoRest

NextEco ==
    \/ SpawnCall
    \/ SpawnPanic
    \/ SpawnAttempt
    \/ SpawnReturn
    \/ FishUpdate

SpecEco == InitEco /\ [][NextEco]_vars

(***************************************************************************)
(* update_fish called twice on the same single fish of an all-water map,   *)
(* once at Day and once at Night, each call with a generator in the same   *)
(* state. The source fixes only the ranges the two calls draw from,        *)
(* rng.range(-1, 2) and rng.range(-2, 3); what value the generator gives   *)
(* for a range is the library's business, so each call's pair of deltas is *)
(* any pair of its range.                                                  *)
(***************************************************************************)
\* the side of the all-water map of the Day / Night comparison
LakeSide == 5

\* Map::new with every tile set to ShallowWater, as in tests::night_moves_faster
Lake ==
    [Map_new(LakeSide, LakeSide) EXCEPT
        !.tiles = [k \in DOMAIN @ |-> "ShallowWater"]]

\* the largest distance along an axis between points p and q
Distance(p, q) == Max(Abs(q.x - p.x), Abs(q.y - p.y))

DayNightCalls ==
    /\ eco.status = "idle"
    /\ \E x \in 0..(LakeSide - 1), y \in 0..(LakeSide - 1) :
       \E day \in DeltaDraws(1, FishSpeed("Day")),
          night \in DeltaDraws(1, FishSpeed("Night")) :
          LET fish == <<[kind |-> "CARP", position |-> Pt(x, y)]>>
          IN  eco' = [status |-> "compared", map |-> Lake, start |-> Pt(x, y),
                     day |-> update_fish(Lake, fish, day, "Day")[1].position,
                     night |-> update_fish(Lake, fish, night, "Night")[1].position]
    /\ UNCHANGED ecoRest

NextNight == DayNightCalls

SpecNight == InitEco /\ [][NextNight]_vars

(***************************************************************************)
(* Two sessions created with the same seed, difficulty and area, reading   *)
(* the same files, and given the same inputs tick by tick; the draws of    *)
(* the seeded session generator are the same in both, the generator that   *)
(* spawn_fish_population creates for itself is not seeded                  *)
(***************************************************************************)
InitTwin ==
    /\ \E s \in TwinSessions, r \in SpawnDraws :
          LET g == new_with_area(s[1], s[2], s[3], SPAWN_COUNT, LoadedCodex(0))
          IN  /\ game = g
              /\ twin = <<[g EXCEPT !.fishes =
                              SpawnedWith(g.map, SPAWN_COUNT, r)]>>
    /\ pc = "input"
    /\ entry = <<>>
    /\ tm = TensionMeter_default
    /\ tmOut = "Ongoing"
    /\ tmBefore = TensionMeter_default
    /\ tmReel = FALSE
    /\ tmN = 0
    /\ eco = EcoIdle
    /\ cell = <<>>

\* one tick of both sessions with the same input and the same draws
TwinTick ==
    /\ game.turn < MaxTwinTurn
    /\ \E ctx \in Inputs, d \in TimeDraws, roll \in BiteRolls :
       \E draws \in FishDraws(FishSpeed(game.time_of_day)) :
          /\ game' = tick(game, ctx, d, draws, roll, SPAWN_COUNT)
          /\ twin' = <<tick(twin[1], ctx, d, draws, roll, SPAWN_COUNT)>>
    /\ UNCHANGED <<pc, entry, tm, tmOut, tmBefore, tmReel, tmN, eco, cell>>

NextTwin == TwinTick

SpecTwin == InitTwin /\ [][NextTwin]_vars

(***************************************************************************)
(* A long session: the player stays in Exploring and presses a key that    *)
(* does nothing there, turn after turn, under any draws of advance_time    *)
(***************************************************************************)
TickLong ==
    /\ game.turn < MaxLongTurn
    /\ TickWith(LongInputs)

AdvanceLong == AdvanceWith(TimeDraws)

NextLong ==
    \/ TickLong
    \/ AdvanceLong
    \/ UpdateExploring
    \/ UpdateHazards

SpecLong == Init /\ [][NextLong]_vars

(***************************************************************************)
(* A session among jellyfish: the player stays in Exploring, stays or      *)
(* steps diagonally each turn, under any draws of advance_time             *)
(***************************************************************************)
TickHazard ==
    /\ game.turn < MaxHazardTurn
    /\ TickWith(HazardInputs)

NextHazard ==
    \/ TickHazard
    \/ AdvanceLong
    \/ UpdateExploring
    \/ UpdateHazards

SpecHazard == Init /\ [][NextHazard]_vars

(***************************************************************************)
(* A TensionMeter on its own: created, then updated with any reel flags    *)
(***************************************************************************)
MeterIdle ==
    /\ game = NewSession(<<0, "Normal", "Coast", SPAWN_COUNT, 0>>)
    /\ pc = "meter"
    /\ entry = <<>>
    /\ tmOut = "Ongoing"
    /\ tmBefore = tm
    /\ tmReel = FALSE
    /\ tmN = 0
    /\ eco = EcoIdle
    /\ twin = <<>>
    /\ cell = <<>>

\* the meters TensionMeter::new creates
InitMeter ==
    /\ \E strength \in Strengths, style \in FightStyles, rf \in ReelFactors :
          tm = TensionMeter_new(strength, style, rf)
    /\ MeterIdle

\* any values of the fields of a TensionMeter (all of them are public)
InitMeterAny ==
    /\ \E strength \in Strengths, style \in FightStyles, rf \in ReelFactors,
          tension \in Tensions, max \in MaxTensions, duration \in Durations :
          tm = [tension |-> tension, max_tension |-> max, duration |-> duration,
                strength |-> strength, style |-> style, reel_factor |-> rf]
    /\ MeterIdle

\* one call of TensionMeter::update
MeterUpdate ==
    /\ pc = "meter"
    /\ tmN < MaxUpdates
    /\ \E reel \in BOOLEAN :
          LET r == TensionMeter_update(tm, reel)
          IN  /\ tm' = r.meter
              /\ tmOut' = r.state
              /\ tmReel' = reel
    /\ tmBefore' = tm
    /\ tmN' = tmN + 1
    /\ UNCHANGED <<gameVars, eco, twin, cell>>

NextMeter == MeterUpdate

SpecMeter == InitMeter /\ [][NextMeter]_vars

SpecMeterAny == InitMeterAny /\ [][NextMeter]_vars

(***************************************************************************)
(* Properties                                                              *)
(***************************************************************************)
InLog(g, msg) == \E k \in DOMAIN g.ui.log : g.ui.log[k] = msg

\* the session as the tick under way found it
AtEntry == entry[1]

\* a step of update_fishing that runs the meter, and the state its update returns
MeterRuns == /\ pc = "update"
             /\ game.mode.kind = "Fishing"
             /\ game.mode.wait = 0
             /\ game.meter # <<>>

Resolution == TensionMeter_update(game.meter[1], game.reeling).state

\* C1: update returns the outcome of the fixed priority Broken > Lost >
\* Success > Ongoing: Broken iff the tension after the step is >= max_tension;
\* otherwise Lost iff the tension was > 0 before and is 0 after; otherwise
\* Success iff the decremented duration is <= 0; otherwise Ongoing.
C1_OutcomePriority ==
    tmN > 0 =>
        LET broken == tm.tension >= tm.max_tension
            lost   == tmBefore.tension > 0 /\ tm.tension = 0
            done   == tm.duration <= 0
        IN  /\ tm.duration = tmBefore.duration - 1
            /\ tmOut \in {"Broken", "Lost", "Success", "Ongoing"}
            /\ (tmOut = "Broken") <=> broken
            /\ (tmOut = "Lost") <=> (~broken /\ lost)
            /\ (tmOut = "Success") <=> (~broken /\ ~lost /\ done)
            /\ (tmOut = "Ongoing") <=> (~broken /\ ~lost /\ ~done)

\* an update that reaches max_tension as the duration reaches 0 reported Broken
C1_Witness ==
    /\ tmN > 0
    /\ tmBefore.tension < tmBefore.max_tension
    /\ tmBefore.duration = 1
    /\ tm.tension >= tm.max_tension
    /\ tm.duration = 0
    /\ tmOut = "Broken"

\* C2: in every state reachable from TensionMeter::new by update calls the
\* stored tension never exceeds max_tension.
C2_TensionWithinMax == tm.tension <= tm.max_tension

\* C3: the only changes of the GameMode variant are Exploring -> Aiming
\* (cast), Aiming -> Fishing{wait=2} (cast-confirm), Fishing -> Exploring (no
\* bite, Success, Broken or Lost) and Exploring -> End (end-run).
C3_ModeTransitions ==
    [][game'.mode.kind # game.mode.kind =>
          \/ /\ pc = "input"
             /\ game.mode.kind = "Exploring"
             /\ game'.mode.kind = "Aiming"
             /\ InLog(game', "Select target...")
          \/ /\ pc = "input"
             /\ game.mode.kind = "Aiming"
             /\ game'.mode = Fishing(2)
             /\ InLog(game', "Casting...")
          \/ /\ pc = "update"
             /\ game.mode.kind = "Fishing"
             /\ game.mode.wait = 0
             /\ game.meter = <<>> \/ Resolution \in {"Success", "Broken", "Lost"}
             /\ game'.mode = Exploring
          \/ /\ pc = "input"
             /\ game.mode.kind = "Exploring"
             /\ game'.mode.kind = "End"
             /\ InLog(game', "Run ended!")]_vars

\* a run ended after a fishing episode resolved: all four transitions taken
C3_Witness ==
    /\ game.mode.kind = "End"
    /\ game.ui.layout = "Standard"
    /\ InLog(game, "Run ended!")

\* the contexts that carry the cast key, with or without a click
CastInputs(g) ==
    {Ctx(g.input.cast, click, mouse) :
        click \in BOOLEAN, mouse \in {<<0, 0>>, <<59, 16>>, <<60, 0>>}}

\* C4: a cast in Exploring moves to Aiming with the target at the player's
\* position iff line > 0 and the population is non-empty; otherwise the mode
\* stays Exploring.
C4_CastIff ==
    (pc = "input" /\ game.mode.kind = "Exploring") =>
        \A ctx \in CastInputs(game) :
            LET post == handle_input(ClearLog(game), ctx)
                ok   == game.player.line > 0 /\ game.fishes # <<>>
            IN  /\ (post.mode.kind = "Aiming") <=> ok
                /\ ok => post.mode = Aiming(post.player.pos)
                /\ ~ok => post.mode = Exploring

\* a cast refused for a ruined line although fish are around
C4_Witness ==
    /\ pc = "time"
    /\ AtEntry.mode.kind = "Exploring"
    /\ AtEntry.player.line = 0
    /\ AtEntry.fishes # <<>>
    /\ InLog(game, "Your line is broken!")
    /\ game.mode = Exploring

\* C5: once the mode is End{score}, no step of any tick changes the mode or
\* its score.
C5_EndAbsorbing ==
    [][game.mode.kind = "End" => game'.mode = game.mode]_vars

\* a tick with input that began in End has handled its input and its time step
C5_Witness ==
    /\ pc = "update"
    /\ AtEntry.mode.kind = "End"
    /\ game.mode = AtEntry.mode
    /\ game.turn > AtEntry.turn

\* the fields the per-turn side effects write
TurnFields(g) ==
    <<g.turn, g.time_of_day, g.player.hunger, g.player.hp, g.storm_turns,
      g.player.canned_food, g.hazards>>

\* C6: a tick that starts in End mode, with or without input, leaves the turn
\* counter, time of day, hunger, hp, storm countdown, canned-food count and
\* hazard list unchanged.
C6_EndTickFrame ==
    [][pc' = "input" =>
          LET found == IF pc = "input" THEN game ELSE AtEntry
          IN  found.mode.kind = "End" => TurnFields(game') = TurnFields(found)]_vars

\* the species of the fish Success takes: the last of the population
Caught == game.fishes[Len(game.fishes)].kind

\* what Success does whether or not the catch unlocks the next area
SuccessCommon ==
    /\ game.fishes # <<>>
    /\ game'.player.inventory = Append(game.player.inventory, Caught)
    /\ total_captures(game'.codex) = total_captures(game.codex) + 1
    /\ game'.codex = record_capture(game.codex, Caught)
    /\ game'.meter = <<>>
    /\ game'.mode = Exploring
    /\ game'.player.line = game.player.line

\* C7 (as stated): on Success exactly one fish leaves the population, its
\* species is appended to the inventory, the ledger total rises by one, the
\* meter is destroyed, the mode becomes Exploring and the line is unchanged.
C7_SuccessOriginal ==
    [][(MeterRuns /\ Resolution = "Success") =>
          /\ SuccessCommon
          /\ \E i \in DOMAIN game.fishes :
                game'.fishes = RemoveAt(game.fishes, i - 1)]_vars

\* C7 (amended): as stated, except that when the catch unlocks the next area
\* the whole population is replaced by the one spawned on the new map.
C7_SuccessAmended ==
    [][(MeterRuns /\ Resolution = "Success") =>
          /\ SuccessCommon
          /\ game'.area = game.area => game'.fishes = Front(game.fishes)
          /\ game'.area # game.area =>
                \E n \in PopSizes :
                    game'.fishes = SpawnedPopulation(game'.map, n)]_vars

\* a catch that unlocked the next area
C7_Witness ==
    /\ pc = "hazards"
    /\ AtEntry.mode.kind = "Fishing"
    /\ InLog(game, "Caught a fish!")
    /\ game.area # AtEntry.area
    /\ Len(game.player.inventory) = Len(AtEntry.player.inventory) + 1

\* C8: on Broken the line becomes max(0, line - 15), the mode becomes
\* Exploring, the meter is destroyed, and neither the population nor the
\* inventory changes.
C8_Broken ==
    [][(MeterRuns /\ Resolution = "Broken") =>
          /\ game'.player.line = Max(0, game.player.line - 15)
          /\ game'.mode = Exploring
          /\ game'.meter = <<>>
          /\ game'.fishes = game.fishes
          /\ game'.player.inventory = game.player.inventory]_vars

\* a line of less than 15 snapped and is ruined
C8_Witness ==
    /\ pc = "hazards"
    /\ InLog(game, "Line snapped!")
    /\ InLog(game, "Your line is ruined.")
    /\ game.player.line = 0
    /\ game.mode = Exploring

\* C9: a fishing update that ends in Lost, or whose bite roll fails, returns
\* to Exploring and leaves line, hp, population and inventory as they were.
C9_LostOrNoBite ==
    [][(\/ MeterRuns /\ Resolution = "Lost"
        \/ /\ pc = "update"
           /\ game.mode.kind = "Fishing"
           /\ game.mode.wait = 0
           /\ game.meter = <<>>
           /\ game'.meter = <<>>) =>
          /\ game'.mode = Exploring
          /\ game'.meter = <<>>
          /\ game'.player.line = game.player.line
          /\ game'.player.hp = game.player.hp
          /\ game'.fishes = game.fishes
          /\ game'.player.inventory = game.player.inventory]_vars

\* a hooked fish escaped
C9_Witness ==
    /\ pc = "hazards"
    /\ AtEntry.meter # <<>>
    /\ InLog(game, "The fish escaped!")
    /\ game.mode = Exploring

\* the session with the wait decremented and the cast path advanced by one
\* step of the wait branch
AfterWait(g) ==
    [g EXCEPT !.mode.wait = @ - 1,
              !.cast_step = IF g.cast_path # <<>> /\ @ < Len(g.cast_path[1])
                            THEN @ + 1 ELSE @,
              !.cast_path = IF g.cast_path # <<>>
                               /\ g.cast_step >= Len(g.cast_path[1])
                            THEN <<>> ELSE @]

\* C10: cast-confirm in Aiming enters Fishing{wait=2}; a fishing update that
\* starts with wait > 0 only decrements wait and advances or clears the cast
\* path; a bite roll (a meter created, or the no-bite return) happens only on
\* an update that starts with wait = 0 and no meter.
C10_WaitThenBite ==
    [][/\ (pc = "input" /\ game.mode.kind = "Aiming"
             /\ game'.mode.kind # "Aiming") => game'.mode = Fishing(2)
       /\ (pc = "update" /\ game.mode.kind = "Fishing" /\ game.mode.wait > 0) =>
              game' = AfterWait(game)
       /\ (pc = "update" /\ (\/ game.meter = <<>> /\ game'.meter # <<>>
                             \/ InLog(game', "Hooked a fish!")
                             \/ InLog(game', "The fish got away..."))) =>
              /\ game.mode.kind = "Fishing"
              /\ game.mode.wait = 0
              /\ game.meter = <<>>]_vars

\* the second wait update after a cast-confirm: wait 1 -> 0, no meter
C10_Witness ==
    /\ pc = "hazards"
    /\ AtEntry.mode = Fishing(1)
    /\ game.mode = Fishing(0)
    /\ game.meter = <<>>

\* the hp a shore rest of this turn advance gave back
ShoreRest(g) == IF InLog(g, "You rest on the shore.") THEN 1 ELSE 0

\* hp after the starvation branch alone
Starved(hp) == IF hp > 0 THEN hp - 1 ELSE 0

\* C12 (as stated): on each turn advance, if hunger > 0 it decreases by the
\* difficulty amount of the new turn floored at 0 and hp is not reduced; if
\* hunger is already 0 it stays 0 and hp decreases by exactly 1 when hp > 0
\* and stays 0 otherwise.
C12_HungerOriginal ==
    [][pc = "time" =>
          LET loss == hunger_loss(game.difficulty, game'.turn)
          IN  IF game.player.hunger > 0
              THEN /\ game'.player.hunger = Max(game.player.hunger - loss, 0)
                   /\ game'.player.hp >= game.player.hp
              ELSE /\ game'.player.hunger = 0
                   /\ game'.player.hp = Starved(game.player.hp)]_vars

\* C12 (amended): the same, with hp counted before the tile event of the same
\* turn advance: a shore rest on Land gives 1 hp back, so a starving player
\* who rests ends the turn advance with the hp it started with (or with 1 hp
\* from 0), and a fed player who rests gains 1.
C12_HungerAmended ==
    [][pc = "time" =>
          LET loss == hunger_loss(game.difficulty, game'.turn)
              rest == ShoreRest(game')
          IN  /\ loss = CASE game.difficulty = "Normal" -> 1
                          [] game.difficulty = "Hard" -> 2
                          [] game.difficulty = "Easy" ->
                                 IF game'.turn % 2 = 0 THEN 1 ELSE 0
              /\ rest = 1 => /\ Map_tile(game.map, game.player.pos) = "Land"
                             /\ game'.player.hp <= MAX_HP
              /\ IF game.player.hunger > 0
                 THEN /\ game'.player.hunger =
                             Max(game.player.hunger - loss, 0)
                      /\ game'.player.hp = game.player.hp + rest
                 ELSE /\ game'.player.hunger = 0
                      /\ game'.player.hp = Starved(game.player.hp) + rest]_vars

\* a turn advance that found hunger 0 took 1 hp
C12_Witness ==
    /\ pc = "update"
    /\ entry # <<>>
    /\ AtEntry.player.hunger = 0
    /\ AtEntry.player.hp > 0
    /\ game.player.hunger = 0
    /\ game.player.hp = AtEntry.player.hp - 1

\* the time of day of turn number turn
PhaseOf(turn) == TIMES[((turn \div TIME_SEGMENT_TURNS) % Len(TIMES)) + 1]

\* C13: every turn advance increments the turn counter by exactly 1 (and no
\* other step changes it), and once a turn has advanced the time of day is
\* the (turn / 10) mod 4 entry of [Dawn, Day, Dusk, Night]; a new session
\* starts at turn 0 in Dawn, so the phases follow Dawn, Day, Dusk, Night, Dawn
\* with 10 turns each.
C13_TurnClock ==
    /\ \A s \in Sessions : /\ NewSession(s).turn = 0
                           /\ NewSession(s).time_of_day = PhaseOf(0)
    /\ [](game.turn > 0 => game.time_of_day = PhaseOf(game.turn))
    /\ [][/\ pc = "time" => /\ game'.turn = game.turn + 1
                            /\ game'.time_of_day = PhaseOf(game'.turn)
          /\ pc # "time" => /\ game'.turn = game.turn
                            /\ game'.time_of_day = game.time_of_day
          /\ TIMES = <<"Dawn", "Day", "Dusk", "Night">>
          /\ TIME_SEGMENT_TURNS = 10]_vars

\* the 40th turn advance wrapped the clock from Night back to Dawn
C13_Witness ==
    /\ pc = "update"
    /\ game.turn = 4 * TIME_SEGMENT_TURNS
    /\ AtEntry.time_of_day = "Night"
    /\ game.time_of_day = "Dawn"

\* the hazards of g with every positive countdown decremented
Ticked(g) ==
    [k \in DOMAIN g.hazards |->
        [g.hazards[k] EXCEPT !.turns = IF @ > 0 THEN @ - 1 ELSE 0]]

\* the number of hazards of g at the player's position
Hits(g) ==
    Cardinality({k \in DOMAIN g.hazards : g.hazards[k].pos = g.player.pos})

\* C14: a hazard update decrements every countdown, then each hazard at the
\* player's position (one on its last turn included) takes 1 hp while hp > 0
\* and 15 line integrity floored at 0, then exactly the hazards with
\* countdown 0 are removed; no hazard with countdown 0 survives, and a hazard
\* created with countdown 3 has at most 2 left after an update, so it is gone
\* after at most 3 updates.
C14_HazardUpdate ==
    /\ [](\A k \in DOMAIN game.hazards :
             game.hazards[k].turns \in 1..HAZARD_DURATION)
    /\ [][pc = "hazards" =>
             /\ game'.player.hp =
                    Max(game.player.hp - HAZARD_DAMAGE * Hits(game), 0)
             /\ game'.player.line =
                    Max(game.player.line - LINE_DAMAGE * Hits(game), 0)
             /\ game'.hazards =
                    SelectSeq(Ticked(game), LAMBDA h : h.turns > 0)
             /\ \A k \in DOMAIN game'.hazards :
                    game'.hazards[k].turns \in 1..(HAZARD_DURATION - 1)
             /\ HAZARD_DAMAGE = 1 /\ LINE_DAMAGE = 15
             /\ HAZARD_DURATION = 3]_vars

\* a hazard update stung the player and left no hazard: the hazard that
\* stung was on its last turn
C14_Witness ==
    /\ pc = "input"
    /\ game.turn > 0
    /\ InLog(game, "A jellyfish stings you!")
    /\ game.player.hp < MAX_HP
    /\ game.hazards = <<>>

\* C15: a hazard is consumed on contact: when a hazard update damages the
\* player, no hazard at the player's position is left after that update, so
\* one hazard damages the player at most once.
C15_ConsumedOnContact ==
    [][(pc = "hazards" /\ Hits(game) > 0
           /\ (game.player.hp > 0 \/ game.player.line > 0)) =>
          \A k \in DOMAIN game'.hazards :
              game'.hazards[k].pos # game'.player.pos]_vars

\* the position of an area in the progression
AreaRank(area) ==
    CASE area = "Coast" -> 1 [] area = "Offshore" -> 2 [] area = "DeepSea" -> 3

\* C16: the area changes only in the fishing update that resolves a catch
\* (the upgrade check after Success), and then by exactly one tier; after a
\* catch a Coast session is in Offshore iff the ledger total is >= 3 and an
\* Offshore session is in DeepSea iff it is >= 6, also when the total exceeds
\* both thresholds; the area never moves backwards and DeepSea is never left.
C16_AreaProgression ==
    [][LET total == total_captures(game'.codex)
           catch == MeterRuns /\ Resolution = "Success"
       IN  /\ game'.area # game.area =>
                  /\ catch
                  /\ AreaRank(game'.area) = AreaRank(game.area) + 1
           /\ catch =>
                  /\ total = total_captures(game.codex) + 1
                  /\ game.area = "Coast" =>
                         (game'.area = "Offshore" <=> total >= 3)
                  /\ game.area = "Offshore" =>
                         (game'.area = "DeepSea" <=> total >= 6)
                  /\ game.area = "DeepSea" => game'.area = "DeepSea"]_vars

\* a catch in Coast with a ledger beyond both thresholds led to Offshore only
C16_Witness ==
    /\ pc = "hazards"
    /\ AtEntry.area = "Coast"
    /\ game.area = "Offshore"
    /\ total_captures(game.codex) >= 6

\* the map of g has the size of its area
Dims(g) ==
    <<g.map.width, g.map.height>> =
        CASE g.area = "Coast"    -> <<80, 50>>
          [] g.area = "Offshore" -> <<120, 80>>
          [] g.area = "DeepSea"  -> <<160, 120>>

\* C17: in every reachable state the map dimensions are those of the current
\* area (Coast 80x50, Offshore 120x80, DeepSea 160x120); an area upgrade
\* increments the seed by exactly 1, replaces the map by the one generated
\* from the new seed at the new size and the population by one spawned on
\* that map, and puts the player at (width/2, height/2); without an upgrade
\* seed and map stay as they are.
C17_UpgradeRebuilds ==
    /\ [](Dims(game))
    /\ [][IF game'.area # game.area
          THEN /\ game'.seed = game.seed + 1
               /\ game'.map = generate(game'.seed, Area_size(game'.area)[1],
                                       Area_size(game'.area)[2])
               /\ game'.map # game.map
               /\ \E n \in PopSizes :
                      game'.fishes = SpawnedPopulation(game'.map, n)
               /\ \A k \in DOMAIN game'.fishes :
                      /\ InBounds(game'.map, game'.fishes[k].position)
                      /\ IsWater(Map_tile(game'.map, game'.fishes[k].position))
               /\ game'.player.pos =
                      Pt(game'.map.width \div 2, game'.map.height \div 2)
          ELSE /\ game'.seed = game.seed
               /\ game'.map = game.map]_vars

\* an upgrade from Offshore put the player at the centre of a 160x120 map
C17_Witness ==
    /\ pc = "hazards"
    /\ AtEntry.area = "Offshore"
    /\ game.area = "DeepSea"
    /\ game.seed = AtEntry.seed + 1
    /\ game.map.width = 160 /\ game.map.height = 120
    /\ game.player.pos = Pt(80, 60)
    /\ game.fishes # <<>>

\* C11: in every state reachable from a new session by turn advances,
\* hazard updates, fishing updates, eating, cooking, canned-food use and item
\* activation, 0 <= hp <= 10, 0 <= hunger <= 100 and 0 <= line <= 100.
C11_StatsInRange ==
    /\ game.player.hp \in 0..10
    /\ game.player.hunger \in 0..100
    /\ game.player.line \in 0..100
    /\ MAX_HP = 10 /\ MAX_HUNGER = 100 /\ START_LINE = 100

\* the player cooked a fish with hp within 2 of the maximum and has 10 hp
C11_Witness ==
    /\ pc = "time"
    /\ InLog(game, "You cooked and ate a fish.")
    /\ AtEntry.player.hp > MAX_HP - COOK_HP_RESTORE
    /\ game.player.hp = MAX_HP

\* spawn_fish_population has returned Ok and the population is untouched
Spawned == eco.status = "Ok" /\ eco.updates = 0

\* the returned population has at most min(count, water tiles) fish, at
\* pairwise distinct positions, each on water at a depth inside its species'
\* range
SpawnSafe ==
    /\ Len(eco.fishes) <= Min(eco.count, Len(WaterOf(eco.map)))
    /\ \A i, j \in DOMAIN eco.fishes :
           i # j => eco.fishes[i].position # eco.fishes[j].position
    /\ \A i \in DOMAIN eco.fishes :
           LET pt == eco.fishes[i].position
               ft == FishType(eco.fishes[i].kind)
           IN  /\ InBounds(eco.map, pt)
               /\ Map_tile(eco.map, pt) \in {"ShallowWater", "DeepWater"}
               /\ Map_depth(eco.map, pt) >= ft.min_depth
               /\ Map_depth(eco.map, pt) <= ft.max_depth

C19_NoWaterFails ==
    eco.status # "idle" =>
        /\ (eco.status = "InvalidOperation") <=>
               (\A pt \in {Cells(eco.map)[k] : k \in DOMAIN Cells(eco.map)} :
                    Map_tile(eco.map, pt) = "Land")
        /\ eco.status = "InvalidOperation" =>
               /\ eco.fishes = <<>>
               /\ eco.attempts = 0

\* a call for fish of a non-empty species list on the 5x5 all-Land map failed
C19_Witness ==
    /\ eco.status = "InvalidOperation"
    /\ eco.map = Map_new(5, 5)
    /\ eco.count > 0
    /\ eco.fish_types # <<>>

\* C20: every fish of a population that started on water is, after any
\* number of update_fish calls at any time of day and with any draws, inside
\* the map and on a ShallowWater or DeepWater tile; one update keeps the
\* fish and their species, and leaves each fish where it was or at most
\* speed cells away along each axis, speed = 2 at Night and 1 otherwise.
C20_FishStayOnWater ==
    /\ [](eco.status = "Ok" =>
             \A i \in DOMAIN eco.fishes :
                 /\ InBounds(eco.map, eco.fishes[i].position)
                 /\ Map_tile(eco.map, eco.fishes[i].position)
                        \in {"ShallowWater", "DeepWater"})
    /\ [][(eco.status = "Ok" /\ eco'.status = "Ok") =>
             LET speed == IF eco'.time_of_day = "Night" THEN 2 ELSE 1
             IN  /\ eco'.updates = eco.updates + 1
                 /\ eco'.map = eco.map
                 /\ DOMAIN eco'.fishes = DOMAIN eco.fishes
                 /\ \A i \in DOMAIN eco.fishes :
                        LET p == eco.fishes[i].position
                            q == eco'.fishes[i].position
                        IN  /\ eco'.fishes[i].kind = eco.fishes[i].kind
                            /\ \/ q = p
                               \/ /\ Abs(q.x - p.x) <= speed
                                  /\ Abs(q.y - p.y) <= speed
                                  /\ IsWater(Map_tile(eco.map, q))]_vars

\* after a second update, made at Night, a fish is two cells from where it
\* was before that update
C20_Witness ==
    /\ eco.status = "Ok"
    /\ eco.updates >= 2
    /\ eco.time_of_day = "Night"
    /\ eco.moved = 2

Observed(g) ==
    <<g.map, g.fishes, g.player, g.hazards, g.mode, g.meter>>

\* C22: two sessions created with the same seed, difficulty and area and
\* driven by the same inputs are in identical states after every tick: map,
\* fish population (species and positions), player, hazards, mode and
\* tension meter.
C22_SeedDeterminism ==
    twin # <<>> => Observed(twin[1]) = Observed(game)

\* the step of a tick: the next position in tick, and whether the mode arm
\* taken is the one of mode kind
StepsTo(next) == pc' = next

\* the fish moved (or stayed) and nothing else of the session changed
FishMovement == game' = [game EXCEPT !.fishes = game'.fishes]

\* one fishing update ran
FishingUpdate ==
    \E roll \in BiteRolls, n \in PopSizes : game' = update_fishing(game, roll, n)

\* a tick with input advances the turn once, and no other step changes it
TurnOncePerTick ==
    /\ pc = "input" /\ pc' = "time" => game'.turn = game.turn
    /\ pc = "time" => game'.turn = game.turn + 1 /\ StepsTo("update")
    /\ pc \in {"update", "hazards"} => game'.turn = game.turn
    /\ pc = "hazards" => game' = update_hazards(game) /\ StepsTo("input")

IdleInput_Advances ==
    /\ pc = "input"
    /\ \E d \in TimeDraws :
          game' = advance_time(handle_input(ClearLog(game),
                                            Ctx(NoKey, FALSE, <<0, 0>>)),
                               d[1], d[2], d[3])
    /\ pc' = "idle"
    /\ entry' = <<game>>
    /\ UNCHANGED unitVars

\* tick with neither key nor click: self.handle_input(ctx); the test
\* key.is_some() || click fails
IdleInput ==
    /\ pc = "input"
    /\ game' = handle_input(ClearLog(game), Ctx(NoKey, FALSE, <<0, 0>>))
    /\ pc' = "idle"
    /\ entry' = <<game>>
    /\ UNCHANGED unitVars

\* tick with neither key nor click: the drawing, which reads the session
IdleDraw ==
    /\ pc = "idle"
    /\ pc' = "input"
    /\ entry' = <<>>
    /\ UNCHANGED <<game, unitVars>>

NextIdle ==
    \/ TickInput
    \/ IdleInput
    \/ IdleDraw
    \/ AdvanceTime
    \/ UpdateExploring
    \/ UpdateAiming
    \/ UpdateFishing
    \/ UpdateEnd
    \/ UpdateHazards

SpecIdle == Init /\ [][NextIdle]_vars

\* the fields of the session that only a turn changes
Simulated(g) ==
    <<g.turn, g.time_of_day, g.player.hunger, g.player.hp, g.player.line,
      g.fishes, g.hazards, g.storm_turns, g.meter, g.mode>>

\* C24: a tick with no key and no left click leaves the turn counter, time
\* of day, hunger, hp, line integrity, fish positions, hazards, storm
\* countdown, tension meter and mode unchanged, from its input handling to
\* its return.
C24_IdleTickFrame ==
    /\ [](pc = "idle" => Simulated(game) = Simulated(AtEntry))
    /\ [][(pc = "input" /\ pc' = "idle") \/ pc = "idle" =>
             Simulated(game') = Simulated(game)]_vars

\* an idle tick has handled its (absent) input in the middle of a fight,
\* some turns into the session, while a storm counts down
C24_Witness ==
    /\ pc = "idle"
    /\ AtEntry.turn > 0
    /\ AtEntry.meter # <<>>
    /\ AtEntry.storm_turns > 0
    /\ Simulated(game) = Simulated(AtEntry)

\* round((1 / rarity) * 10), to nearest, for a rarity in hundredths
RoundedScore(rarity) == (2 * 1000 + rarity) \div (2 * rarity)

RECURSIVE RoundedSum(_)
RoundedSum(inv) ==
    IF inv = <<>> THEN 0
    ELSE RoundedScore(FishType(Head(inv)).rarity) + RoundedSum(Tail(inv))

\* C25: the score stored in End{score} by the end-run action equals the sum,
\* over the entries of the inventory at that moment, of round((1 / rarity) *
\* 10), rounded to nearest.
C25_ScoreRounded ==
    [][game.mode.kind # "End" /\ game'.mode.kind = "End" =>
          game'.mode.score = RoundedSum(game.player.inventory)]_vars

(***************************************************************************)
(* mapgen::generate cell by cell: the loop body reads nothing but the      *)
(* noise value of its cell, so a generated map is any grid of cells each   *)
(* written from its own noise value                                        *)
(***************************************************************************)
\* the noise values a cell can have, in thousandths: -1.0 .. 1.0
NoiseValues == -NoiseRange..NoiseRange

\* one pass of the loop body, for a cell of any noise value
GenerateCell ==
    /\ cell = <<>>
    /\ \E v \in NoiseValues : cell' = <<generate_cell(v)>>
    /\ UNCHANGED <<game, pc, entry, tm, tmOut, tmBefore, tmReel, tmN, eco, twin>>

NextGen == GenerateCell

SpecGen == Init /\ [][NextGen]_vars

\* d is -v * 100 rounded to the nearest integer, v in thousandths
NearestToDepth(d, v) == -5 <= 10 * d + v /\ 10 * d + v <= 5

\* C26: a cell of noise value v is DeepWater when v < -0.2, ShallowWater
\* when -0.2 <= v < 0 and Land when v >= 0; its depth is 0 on Land and
\* round(-v * 100), at least 0, on water; so no depth is negative, every
\* Land cell has depth 0, every ShallowWater cell depth <= 20 and every
\* DeepWater cell depth >= 20.  The maps of the sessions, whose noise is in
\* hundredths, are made of such cells.
C26_GenerateCell ==
    cell # <<>> =>
        LET c == cell[1]
        IN  /\ c.tile = "DeepWater" <=> c.v < -200
            /\ c.tile = "ShallowWater" <=> -200 <= c.v /\ c.v < 0
            /\ c.tile = "Land" <=> c.v >= 0
            /\ c.tile = "Land" => c.depth = 0
            /\ c.tile # "Land" => NearestToDepth(c.depth, c.v)
            /\ c.depth >= 0
            /\ c.tile = "ShallowWater" => c.depth <= 20
            /\ c.tile = "DeepWater" => c.depth >= 20
            /\ c.v % 10 = 0 =>
                  /\ c.tile = TileOfNoise(c.v \div 10)
                  /\ c.depth = DepthOfNoise(c.v \div 10)

\* a shallow cell whose depth was rounded up to 20, and was written
C26_Witness ==
    /\ cell # <<>>
    /\ cell[1].tile = "ShallowWater"
    /\ cell[1].v = -196
    /\ cell[1].depth = 20

(***************************************************************************)
(* A session that fishes and then aims another cast: the player opens or   *)
(* closes the inventory, presses the cast key, steps and clicks            *)
(***************************************************************************)
TickAim ==
    /\ game.turn < MaxAimTurn
    /\ TickWith(IF game.turn < MaxTurn THEN FishingInputs ELSE AimInputs)

AdvanceAim == AdvanceWith(CalmDraws)

NextAim ==
    \/ TickAim
    \/ AdvanceAim
    \/ UpdateExploring
    \/ UpdateAiming
    \/ UpdateFishing
    \/ UpdateEnd
    \/ UpdateHazards

SpecAim == Init /\ [][NextAim]_vars

\* g2 is g with at most its target changed, the target inside the map
OnlyTarget(g, g2) ==
    /\ g2.mode.kind = "Aiming"
    /\ g2 = [g EXCEPT !.mode.target = g2.mode.target]
    /\ InBounds(g.map, g2.mode.target)
    /\ g2.player.pos = g.player.pos

\* the input handling of a tick that started in Aiming with one of inputs
AimedWith(inputs) ==
    /\ pc = "input"
    /\ game.mode.kind = "Aiming"
    /\ \E ctx \in inputs : game' = handle_input(ClearLog(game), ctx)

\* C27: while the mode is Aiming, a movement-direction input or a left click
\* changes only the target, which stays inside the map bounds, and never
\* changes the player's position.
C27_AimOnlyTarget ==
    [][AimedWith(AimAdjust) => OnlyTarget(ClearLog(game), game')]_vars

\* r is 10 * reel_factor rounded to the nearest integer, reel_factor in
\* hundredths
NearestToReel(r, reel_factor) ==
    -50 <= 100 * r - 10 * reel_factor /\ 100 * r - 10 * reel_factor <= 50

\* h is strength / 2 by integer division, strength >= 0
HalfOf(h, strength) == 2 * h <= strength /\ strength < 2 * h + 2

\* what the fish of the meter before the last update adds when not reeled
FishPull(before, after) ==
    CASE before.style = "Aggressive" ->
           after.tension = before.tension + 2 * before.strength
      [] before.style = "Endurance" ->
           IF before.duration > 2
           THEN after.tension = before.tension + before.strength
           ELSE HalfOf(after.tension - before.tension, before.strength)
      [] before.style = "Evasive" ->
           IF before.tension <= 5 THEN after.tension = 0
           ELSE after.tension = before.tension + before.strength

\* C28: one TensionMeter update lowers the duration by 1 in every branch;
\* when reeling, the tension becomes max(0, tension - round(10 *
\* reel_factor)); when not reeling, Aggressive adds 2 * strength, Endurance
\* adds strength if the duration before the decrement is > 2 and strength / 2
\* (integer division) otherwise (updates 1-3 and 4-5 of a meter of duration
\* 5), Evasive sets the tension to 0 if it is <= 5 and adds strength
\* otherwise; no other field changes.
C28_MeterReferenceStep ==
    tmN > 0 =>
        /\ tm.duration = tmBefore.duration - 1
        /\ tm = [tmBefore EXCEPT !.tension = tm.tension,
                                 !.duration = tm.duration]
        /\ tmReel =>
              \E r \in 0..20 :
                 /\ NearestToReel(r, tmBefore.reel_factor)
                 /\ tm.tension = Max(0, tmBefore.tension - r)
        /\ ~tmReel => FishPull(tmBefore, tm)
        /\ (~tmReel /\ tmBefore.style = "Endurance"
               /\ tmBefore.duration = 6 - tmN) =>
              /\ tmN \in 1..3 =>
                    tm.tension = tmBefore.tension + tmBefore.strength
              /\ tmN \in 4..5 =>
                    HalfOf(tm.tension - tmBefore.tension, tmBefore.strength)

\* the fourth update of an Endurance meter of duration 5 and strength 3, not
\* reeled: the duration before it is 2 and the fish adds 1
C28_Witness ==
    /\ tmN = 4
    /\ ~tmReel
    /\ tmBefore.style = "Endurance"
    /\ tmBefore.strength = 3
    /\ tmBefore.duration = 2
    /\ tm.duration = 1
    /\ tm.tension = tmBefore.tension + 1

(***************************************************************************)
(* Sessions that fish for MaxTurn turns, some of them into the next area,  *)
(* and then walk and click their way to a corner of the map                *)
(***************************************************************************)
TickWalk ==
    /\ game.turn < MaxWalkTurn
    /\ TickWith(IF game.turn < MaxTurn THEN FishingInputs ELSE WalkInputs)

NextWalk ==
    \/ TickWalk
    \/ AdvanceArea
    \/ UpdateExploring
    \/ UpdateAiming
    \/ UpdateFishing
    \/ UpdateEnd
    \/ UpdateHazards

SpecWalk == InitArea /\ [][NextWalk]_vars

\* C29: the player's position is inside the bounds of the current map in
\* every state reached from a new session by movement keys (in any mode),
\* left clicks inside the view and area upgrades.
C29_PlayerInBounds == InBounds(game.map, game.player.pos)

\* after an area upgrade the player has reached the first cell of the new
\* map, and an input there has left it on that cell
C29_Witness ==
    /\ pc = "time"
    /\ game.area = "Offshore"
    /\ game.map.width = 120
    /\ AtEntry.player.pos = Pt(0, 0)
    /\ game.player.pos = Pt(0, 0)

\* the state the next update of the session's meter returns
NextOutcome == TensionMeter_update(game.meter[1], game.reeling).state

\* C30: a tension meter exists only during a fight: whenever there is a
\* meter the mode is Fishing{wait = 0}; a meter appears only in a fishing
\* update whose bite roll succeeds, as a new meter; and it is gone, the mode
\* Exploring, as soon as an update returns Success, Broken or Lost, so no
\* meter is carried into Exploring, Aiming, End or a later cast.
C30_MeterOnlyInFight ==
    /\ [](game.meter # <<>> => game.mode = Fishing(0))
    /\ [][/\ (game.meter = <<>> /\ game'.meter # <<>>) =>
                /\ pc = "update"
                /\ game.mode = Fishing(0)
                /\ \E roll \in BiteRolls :
                      /\ roll < bite_probability(
                                   IF game.fishes = <<>> THEN "ShallowWater"
                                   ELSE Map_tile(game.map,
                                                 game.fishes[1].position),
                                   game.player.bait_bonus)
                      /\ game' = update_fishing(game, roll, SPAWN_COUNT)
                /\ InLog(game', "Hooked a fish!")
                /\ game'.meter[1].tension = 0
                /\ game'.meter[1].duration = 5
          /\ (pc = "update" /\ game.meter # <<>>) =>
                IF NextOutcome = "Ongoing"
                THEN game'.meter # <<>> /\ game'.mode = Fishing(0)
                ELSE game'.meter = <<>> /\ game'.mode = Exploring
          /\ (pc # "update" /\ game.meter # <<>>) =>
                game'.meter = game.meter
          /\ (game.mode.kind = "Exploring" /\ game'.mode.kind = "Aiming") =>
                game'.meter = <<>>]_vars

\* a fight has just been resolved: the tick began with a meter, the update
\* took it and the session is back in Exploring without one
C30_Witness ==
    /\ pc = "hazards"
    /\ AtEntry.meter # <<>>
    /\ AtEntry.meter[1].duration < 5
    /\ game.meter = <<>>
    /\ game.mode = Exploring

\* the update under way takes the session's meter and its update returns
\* Success
ResolvesToSuccess ==
    /\ pc = "update"
    /\ game.mode.kind = "Fishing"
    /\ game.meter # <<>>
    /\ NextOutcome = "Success"

\* C31: when a catch resolves to Success, the fish removed from the
\* population and added to the inventory is the fish whose species
\* parameterized the meter at bite time and whose tile was used for the
\* bite probability (the first of the population), for every population of
\* two or more fish.
C31_CatchIsHookedFish ==
    [][(ResolvesToSuccess /\ Len(game.fishes) >= 2) =>
          /\ game'.player.inventory =
                Append(game.player.inventory, game.fishes[1].kind)
          /\ Len(game'.fishes) = Len(game.fishes) - 1 =>
                game'.fishes = Tail(game.fishes)]_vars

\* the number of fishing updates a session in Fishing can still need before
\* it is back in Exploring: the waits left, the bite roll and the 5 updates
\* of a new meter, or the duration left of the meter there is
UpdatesLeft(g) ==
    IF g.meter = <<>> THEN g.mode.wait + 1 + 5 ELSE g.meter[1].duration

\* C32: every fishing attempt ends in bounded time: cast-confirm leaves at
\* most 8 fishing updates to go (2 waits, 1 bite roll, at most 5 meter
\* updates); every tick with input in Fishing runs one fishing update, which
\* either returns the session to Exploring or lowers that number, which
\* stays at least 1 while the mode is Fishing and is changed by nothing
\* else; a meter is created with duration 5 and is gone with its 5th update
\* at the latest, whatever the reel flags.
C32_FishingBounded ==
    /\ [](game.mode.kind = "Fishing" =>
             1 <= UpdatesLeft(game) /\ UpdatesLeft(game) <= 8)
    /\ [][/\ (game.mode.kind # "Fishing" /\ game'.mode.kind = "Fishing") =>
                /\ game.mode.kind = "Aiming"
                /\ UpdatesLeft(game') = 8
          /\ (game.mode.kind = "Fishing" /\ pc = "time") => pc' = "update"
          /\ (game.mode.kind = "Fishing" /\ pc = "update") =>
                \/ game'.mode = Exploring
                \/ /\ game'.mode.kind = "Fishing"
                   /\ UpdatesLeft(game') < UpdatesLeft(game)
          /\ (game.mode.kind = "Fishing" /\ pc # "update") =>
                /\ game'.mode.kind = "Fishing"
                /\ UpdatesLeft(game') = UpdatesLeft(game)]_vars

\* an attempt that took all 8 updates: the meter had one update left when
\* the tick began, and the update of this tick ended the attempt
C32_Witness ==
    /\ pc = "hazards"
    /\ AtEntry.mode.kind = "Fishing"
    /\ AtEntry.meter # <<>>
    /\ AtEntry.meter[1].duration = 1
    /\ game.mode = Exploring
    /\ game.meter = <<>>

\* the meter is as new but for the updates counted so far, its line slack
SlackSinceNew ==
    /\ tm.tension = 0
    /\ tm.duration = 5 - tmN
    /\ tm.max_tension > 0
    /\ tm.reel_factor >= 0

\* C33: from a freshly created meter (tension 0, max_tension > 0,
\* reel_factor >= 0), reeling on every update yields Ongoing on updates 1 to
\* 4 and Success on update 5 with tension 0 throughout, for every strength
\* and fight style; Lost is never reported.
C33_ReelAllTheWay ==
    /\ [](tmN = 0 => SlackSinceNew)
    /\ [][(SlackSinceNew /\ tmN < 5 /\ tmReel') =>
             /\ SlackSinceNew'
             /\ tmN' \in 1..4 => tmOut' = "Ongoing"
             /\ tmN' = 5 => tmOut' = "Success"]_vars

\* the fifth update of the strongest Aggressive fish, reeled like the four
\* before it (one pull of that fish could not have been reeled back)
C33_Witness ==
    /\ tmN = 5
    /\ tmReel
    /\ tm.style = "Aggressive"
    /\ tm.strength = 60
    /\ tm.tension = 0
    /\ tmOut = "Success"

(***************************************************************************)
(* Two sessions in the same state, driven side by side with the same       *)
(* inputs and draws, except that while both are aiming each may move its   *)
(* target its own way                                                      *)
(***************************************************************************)
InitTarget ==
    /\ \E s \in Sessions : game = NewSession(s) /\ twin = <<NewSession(s)>>
    /\ pc = "input"
    /\ entry = <<>>
    /\ tm = TensionMeter_default
    /\ tmOut = "Ongoing"
    /\ tmBefore = TensionMeter_default
    /\ tmReel = FALSE
    /\ tmN = 0
    /\ eco = EcoIdle
    /\ cell = <<>>

\* one tick of each session; a and b are their inputs
BothTick(a, b) ==
    \E d \in IF game.turn < 1 THEN TimeDraws ELSE CalmDraws,
       roll \in BiteRolls :
    \E draws \in FishDraws(FishSpeed(game.time_of_day)) :
       /\ game' = tick(game, a, d, draws, roll, SPAWN_COUNT)
       /\ twin' = <<tick(twin[1], b, d, draws, roll, SPAWN_COUNT)>>

\* a tick in which each session moves its target, once per cast
AimApart ==
    /\ game.turn < MaxTargetTurn
    /\ game.mode.kind = "Aiming"
    /\ twin[1].mode.kind = "Aiming"
    /\ twin[1].mode.target = game.mode.target
    /\ \E a \in TargetInputs, b \in TargetInputs : BothTick(a, b)
    /\ UNCHANGED <<pc, entry, tm, tmOut, tmBefore, tmReel, tmN, eco, cell>>

\* a tick with the same input for both
TargetTick ==
    /\ game.turn < MaxTargetTurn
    /\ \E ctx \in LineInputs : BothTick(ctx, ctx)
    /\ UNCHANGED <<pc, entry, tm, tmOut, tmBefore, tmReel, tmN, eco, cell>>

NextTarget ==
    \/ AimApart
    \/ TargetTick

SpecTarget == InitTarget /\ [][NextTarget]_vars

\* the session without its aim: the target while aiming, the cast path and
\* the step of its animation
WithoutAim(g) ==
    [g EXCEPT !.cast_path = <<>>,
              !.cast_step = 0,
              !.mode = IF @.kind = "Aiming" THEN [kind |-> "Aiming"] ELSE @]

\* C34: the aim target does not influence the catch: two sessions in the
\* same state that confirm a cast with different targets have, after every
\* following tick with the same inputs and draws, the same mode, bite
\* result, meter, population, inventory and player stats (every field of
\* the session but the cast-path animation data).
C34_TargetWithoutEffect ==
    twin # <<>> => WithoutAim(twin[1]) = WithoutAim(game)

\* both sessions have landed a fish after casts along different paths
C34_Witness ==
    /\ twin # <<>>
    /\ game.player.inventory # <<>>
    /\ twin[1].player.inventory = game.player.inventory
    /\ game.cast_path # <<>>
    /\ twin[1].cast_path # <<>>
    /\ game.cast_path # twin[1].cast_path

\* the update under way makes the bite roll
RollsForBite ==
    /\ pc = "update"
    /\ game.mode = Fishing(0)
    /\ game.meter = <<>>

\* C35: whenever the mode is Aiming or Fishing the fish population is
\* non-empty; so the bite roll uses the tile of an existing fish and a
\* meter, when one is created, is that of the first fish's species, never
\* the fallback ShallowWater tile and TensionMeter::default.
C35_FishWhileFishing ==
    /\ [](game.mode.kind \in {"Aiming", "Fishing"} => game.fishes # <<>>)
    /\ [][RollsForBite =>
             /\ game.fishes # <<>>
             /\ \E roll \in BiteRolls :
                   LET tile == Map_tile(game.map, game.fishes[1].position)
                       bite == roll < bite_probability(tile,
                                         game.player.bait_bonus)
                       kind == FishType(game.fishes[1].kind)
                   IN  IF bite
                       THEN /\ game'.meter # <<>>
                            /\ game'.meter[1].strength = kind.strength
                            /\ game'.meter[1].style = kind.fight_style
                       ELSE game'.meter = <<>> /\ game'.mode = Exploring]_vars

\* the last fish of a population is on the line
C35_Witness ==
    /\ game.mode = Fishing(0)
    /\ Len(game.fishes) = 1
    /\ game.meter # <<>>
    /\ game.meter[1].strength = FishType(game.fishes[1].kind).strength
    /\ game.turn > 0

(***************************************************************************)
(* A session that fishes among jellyfish: the player casts and reels       *)
(* where it stands, under any draws of advance_time                        *)
(***************************************************************************)
TickHook ==
    /\ game.turn < MaxHookTurn
    /\ TickWith(LineInputs)

NextHook ==
    \/ TickHook
    \/ AdvanceLong
    \/ UpdateExploring
    \/ UpdateAiming
    \/ UpdateFishing
    \/ UpdateHazards

SpecHook == Init /\ [][NextHook]_vars

\* C36: a fish can only be landed on an intact line: in every reachable
\* state where the mode is Fishing, and at every update that resolves to
\* Success, line integrity is > 0, hazard damage taken between the cast and
\* the resolution included.
C36_LandedOnIntactLine ==
    /\ [](game.mode.kind = "Fishing" => game.player.line > 0)
    /\ [][ResolvesToSuccess => game.player.line > 0]_vars

\* C37: the population never holds more than 5 fish and is never
\* replenished within an area: while the area stays the same its size
\* changes only by -1, in an update that resolves to Success and adds one
\* fish to the inventory; DeepSea is never left, so at most 5 catches
\* follow; and once the population is empty it stays empty and a session in
\* Exploring leaves Exploring only by ending the run.
C37_PopulationOnlyShrinks ==
    /\ [](Len(game.fishes) <= SPAWN_COUNT)
    /\ [][/\ game'.area = game.area =>
                \/ Len(game'.fishes) = Len(game.fishes)
                \/ /\ Len(game'.fishes) = Len(game.fishes) - 1
                   /\ ResolvesToSuccess
                   /\ Len(game'.player.inventory) =
                         Len(game.player.inventory) + 1
          /\ game'.area # game.area =>
                ResolvesToSuccess /\ AreaRank(game'.area) = AreaRank(game.area) + 1
          /\ game.area = "DeepSea" => game'.area = "DeepSea"
          /\ (game.fishes = <<>> /\ game'.area = game.area) =>
                /\ game'.fishes = <<>>
                /\ game.mode.kind = "Exploring" =>
                      game'.mode.kind \in {"Exploring", "End"}]_vars

\* in DeepSea both fish of the population have been caught and the next
\* cast has been refused
C37_Witness ==
    /\ game.area = "DeepSea"
    /\ game.fishes = <<>>
    /\ Len(game.player.inventory) = 2
    /\ game.mode = Exploring
    /\ InLog(game, "No fish around.")

(***************************************************************************)
(* ecology::spawn_fish: one call of spawn_fish_population for a single     *)
(* fish, on any of the maps and species lists above, followed by           *)
(* fishes.remove(0) on the population it returned. An InvalidOperation of  *)
(* the inner call is passed on by the ? operator.                          *)
(***************************************************************************)
InitSpawnFish ==
    /\ game = NewSession(<<0, "Normal", "Coast", 0, 0>>)
    /\ pc = "spawn_fish"
    /\ entry = <<>>
    /\ tm = TensionMeter_default
    /\ tmOut = "Ongoing"
    /\ tmBefore = TensionMeter_default
    /\ tmReel = FALSE
    /\ tmN = 0
    /\ eco = EcoIdle
    /\ twin = <<>>
    /\ cell = <<>>

\* spawn_fish is called: spawn_fish_population(map, fish_types, 1)?
SpawnFishCall ==
    /\ eco.status = "idle"
    /\ \E map \in EcoMaps, ids \in SpeciesLists :
          eco' = spawn_begin(map, [k \in DOMAIN ids |-> FishType(ids[k])], 1)
    /\ UNCHANGED ecoRest

\* the inner loop is over: Ok(fishes.remove(0)); Vec::remove panics on an
\* index that is not below the length
SpawnFishReturn ==
    /\ eco.status = "spawning"
    /\ ~SpawnLoops(eco)
    /\ eco' = IF eco.fishes = <<>>
              THEN [eco EXCEPT !.status = "panic"]
              ELSE [eco EXCEPT !.status = "Ok", !.fishes = <<eco.fishes[1]>>]
    /\ UNCHANGED ecoRest

NextSpawnFish ==
    \/ SpawnFishCall
    \/ SpawnPanic
    \/ SpawnAttempt
    \/ SpawnFishReturn

SpecSpawnFish == InitSpawnFish /\ [][NextSpawnFish]_vars

\* no water tile of the map lies in the depth range of any listed species
NothingFits(map, fish_types) ==
    \A k \in DOMAIN fish_types :
        Candidates(map, WaterOf(map), fish_types[k]) = {}

\* C38: called with a species list of at least one species, spawn_fish
\* never aborts: it ends with Ok and one fish or with an Err; in particular
\* on a map with water tiles none of which is in the depth range of any
\* listed species, where the population under-fills to zero, it does not
\* take a fish from the empty population.
C38_SpawnFishReturns ==
    (eco.status # "idle" /\ eco.fish_types # <<>>) =>
        /\ eco.status # "panic"
        /\ eco.status = "Ok" => Len(eco.fishes) = 1
        /\ (WaterOf(eco.map) # <<>> /\ NothingFits(eco.map, eco.fish_types)) =>
               eco.status \in {"spawning", "InvalidOperation"}

\* advance_time created a hazard in this tick and the hazard update of the
\* tick is about to run
Appeared == pc = "hazards" /\ InLog(game, "A jellyfish appears!")

\* the hazard pushed last
NewHazard(g) == g.hazards[Len(g.hazards)]

\* the hazard update about to run stings: 1 hp unless hp is 0 already, line
\* integrity unless the line is at 0 already
Stings ==
    /\ game.player.hp > 0 =>
           /\ game'.player.hp < game.player.hp
           /\ InLog(game', "A jellyfish stings you!")
    /\ game.player.line > 0 => game'.player.line < game.player.line

\* the fishing update of this tick ended in an area upgrade
Recentred == game.area # AtEntry.area

save_game(g) ==
    [x |-> g.player.pos.x, y |-> g.player.pos.y, hp |-> g.player.hp,
     hunger |-> g.player.hunger, food |-> g.player.canned_food,
     time_of_day |-> g.time_of_day]

TickLoad ==
    /\ game.turn < MaxLoadTurn
    /\ TickWith(LongInputs)

AdvanceLoad ==
    AdvanceWith(IF game.turn < MaxExplore THEN TimeDraws ELSE CalmDraws)

\* save_game, then load_game of the file it wrote
Restore ==
    /\ pc = "input"
    /\ twin = <<>>
    /\ game' = load_game(save_game(game), SPAWN_COUNT, LoadedCodex(0))
    /\ twin' = <<game>>
    /\ UNCHANGED <<pc, entry, tm, tmOut, tmBefore, tmReel, tmN, eco, cell>>

NextLoad ==
    \/ TickLoad
    \/ AdvanceLoad
    \/ UpdateExploring
    \/ UpdateHazards
    \/ Restore

SpecLoad == Init /\ [][NextLoad]_vars

\* the session was restored from a save
Restored == twin # <<>>

\* the phase that follows phase p in the day cycle
PhaseAfter(p) ==
    LET k == CHOOSE i \in DOMAIN TIMES : TIMES[i] = p
    IN  TIMES[(k % Len(TIMES)) + 1]

\* C40: a session restored by load_game from a save written by save_game
\* has the saved position, hp, hunger, canned-food count and time of day,
\* and its day cycle goes on from the saved phase: a turn advance of the
\* restored session leaves the phase as it is or moves it to the phase that
\* follows it, and never takes it back to Dawn from Day or Dusk.
C40_RestoredClock ==
    /\ [][Restore =>
             /\ game'.player.pos = game.player.pos
             /\ game'.player.hp = game.player.hp
             /\ game'.player.hunger = game.player.hunger
             /\ game'.player.canned_food = game.player.canned_food
             /\ game'.time_of_day = game.time_of_day]_vars
    /\ [][(Restored /\ pc = "time") =>
             game'.time_of_day \in
                 {game.time_of_day, PhaseAfter(game.time_of_day)}]_vars

====
